---- MODULE Spec2Model ----
(***************************************************************************)
(* Model of the EnergyCalc discovery engine (custom_components/energycalc): *)
(* the entity scan, the power/energy classification, the energy matcher,    *)
(* the grouping by device, the discovery-flow requests, the config flow     *)
(* that turns a request into a config entry, the three triggers of a        *)
(* discovery pass set up by async_setup, the create / remove services and   *)
(* the reset of an energy sensor's accumulator.                             *)
(*                                                                          *)
(* Strings that the code transforms (entity ids, unique ids) are sequences  *)
(* of tokens, so that str.replace, prefixing and suffixing are computed and *)
(* not assumed.  Python's None is the string "None".                        *)
(***************************************************************************)
EXTENDS Integers, Sequences, FiniteSets, TLC

VARIABLES
    registry,        \* entity registry: entity -> [registered, disabled]
    states,          \* state machine: entity -> [present, unit, device_class]
    exclude_entities,\* the YAML exclude_entities list, as a set of entities
    yaml_configured, \* DOMAIN in config
    setup_done,      \* async_setup has run
    entries,         \* config entries of the domain, in creation order
    flows,           \* discovery flows in progress (awaiting confirmation)
    requests,        \* history: every async_create_flow call, in order
    passLog,         \* history: one record per discovery pass, in order
    pc,              \* task -> position of the task
    locals,          \* task -> [entity, pass, units]: the task's local values
    events,          \* number of entity-registry events fired so far
    naming,          \* names the device and entity registries hold
    svc,             \* the services: call log, platform data, the accumulator
    host             \* what the integration leaves with the host: services,
                     \* listener, hass.data, platform entities, notifications

vars == <<registry, states, exclude_entities, yaml_configured, setup_done,
          entries, flows, requests, passLog, pc, locals, events, naming, svc, host>>

None == "None"

-----------------------------------------------------------------------------
(* Bounds of the model.                                                     *)

MaxPasses == 2
MaxEvents == 1

-----------------------------------------------------------------------------
(* The entities of the modelled installation.  Identity (entity id, device) *)
(* is fixed; registration, the disabled flag and the state vary.            *)

Entities == {1, 2, 3, 4, 5, 6, 7, 8, 9}

\* The order in which the registry holds them.
RegistryOrder == <<1, 2, 3, 4, 5, 6, 7, 8, 9>>

EntityId(e) ==
    CASE e = 1 -> <<"sensor", ".", "plug", "_", "power">>
      [] e = 2 -> <<"sensor", ".", "plug", "_", "energy">>
      [] e = 3 -> <<"sensor", ".", "strip", "_", "a", "_", "power">>
      [] e = 4 -> <<"sensor", ".", "strip", "_", "b", "_", "power">>
      [] e = 5 -> <<"sensor", ".", "strip", "_", "total">>
      [] e = 6 -> <<"number", ".", "strip", "_", "budget">>
      [] e = 7 -> <<"sensor", ".", "strip", "_", "a", "_", "energy">>
      [] e = 9 -> <<"sensor", ".", "plug", "_", "power", "_", "total", "_",
                    "energy">>
      [] OTHER -> <<"sensor", ".", "power">>

DeviceIdOf(e) ==
    CASE e \in {3, 4, 5, 6} -> "dev1"
      [] OTHER -> None

\* RegistryEntry.domain: the part of the entity id before the dot.
Domain(e) == Head(EntityId(e))

\* RegistryEntry.platform: the integration that provides the entity.  The
\* energy sensors of the plug are this integration's own.
DOMAIN_ == "energycalc"

Platform(e) == IF e \in {2, 9} THEN DOMAIN_ ELSE "acme"

\* The names of an installation.  A name is a token sequence; <<>> is the
\* absent (or empty) name.  By default dev1 has a registry name and no
\* user-assigned name, and the entities carry no names.
DefaultNaming ==
    [has_entry |-> TRUE, name_by_user |-> <<>>, name |-> <<"Strip">>,
     entity_name |-> <<>>, original_name |-> <<>>]

\* The device registry entry of dev1.
DeviceEntry(d) ==
    [name_by_user |-> naming.name_by_user, name |-> naming.name,
     manufacturer |-> "Acme", model |-> "S2"]

\* device_registry.async_get(device_id) finds an entry.
HasDeviceEntry(d) == d = "dev1" /\ naming.has_entry

\* RegistryEntry.name / original_name / area_id / unique_id of the entities.
EntityName(e) == naming.entity_name
EntityOriginalName(e) == naming.original_name
EntityAreaId(e) == IF e \in {3, 4, 5, 6} THEN "kitchen" ELSE None
EntityUniqueId(e) == <<"uid", ToString(e)>>

-----------------------------------------------------------------------------
(* Strings.                                                                 *)

MatchesAt(s, old, i) ==
    /\ i + Len(old) - 1 <= Len(s)
    /\ \A k \in 1..Len(old) : s[i + k - 1] = old[k]

\* str.replace(old, new): every non-overlapping occurrence, left to right.
RECURSIVE ReplaceFrom(_, _, _, _)
ReplaceFrom(s, old, new, i) ==
    IF i > Len(s) THEN <<>>
    ELSE IF MatchesAt(s, old, i)
         THEN new \o ReplaceFrom(s, old, new, i + Len(old))
         ELSE <<s[i]>> \o ReplaceFrom(s, old, new, i + 1)

Replace(s, old, new) == ReplaceFrom(s, old, new, 1)

\* str.title() on one word of an entity id.
TitleWord(w) ==
    CASE w = "plug" -> "Plug"
      [] w = "power" -> "Power"
      [] w = "energy" -> "Energy"
      [] w = "strip" -> "Strip"
      [] w = "total" -> "Total"
      [] w = "budget" -> "Budget"
      [] w = "a" -> "A"
      [] w = "b" -> "B"
      [] OTHER -> w

\* entity_id.replace("sensor.", "").replace("_", " ").title()
IdDerivedName(entity_id) ==
    LET spaced == Replace(Replace(entity_id, <<"sensor", ".">>, <<>>),
                          <<"_">>, <<" ">>)
    IN  [i \in 1..Len(spaced) |-> TitleWord(spaced[i])]

-----------------------------------------------------------------------------
(* Units and the classification tests.                                      *)

POWER_WATT == "W"
ENERGY_KILO_WATT_HOUR == "kWh"
ENERGY_WATT_HOUR == "Wh"
UnitOfPower_WATT == "W"
UnitOfEnergy_KILO_WATT_HOUR == "kWh"
UnitOfEnergy_WATT_HOUR == "Wh"

Units == {"W", "watt", "kWh", "Wh", None}
DeviceClasses == {None, "power", "energy", "humidity"}

NoState == [present |-> FALSE, unit |-> None, device_class |-> None]
St(u, dc) == [present |-> TRUE, unit |-> u, device_class |-> dc]

\* discovery.py: the power test of _get_power_entities.
IsPowerSensorDropsDeviceClass(unit, device_class) ==
    unit \in {POWER_WATT, UnitOfPower_WATT}

IsPowerSensor(unit, device_class) ==
    /\ unit \in {POWER_WATT, UnitOfPower_WATT}
    /\ (device_class = "power" \/ device_class = None)

\* discovery.py: the energy test of the device branch of _has_energy_entity.
IsEnergySensorDropsDeviceClass(unit, device_class) ==
    unit \in {ENERGY_KILO_WATT_HOUR, ENERGY_WATT_HOUR,
              UnitOfEnergy_KILO_WATT_HOUR, UnitOfEnergy_WATT_HOUR}

IsEnergySensor(unit, device_class) ==
    /\ unit \in {ENERGY_KILO_WATT_HOUR, ENERGY_WATT_HOUR,
                 UnitOfEnergy_KILO_WATT_HOUR, UnitOfEnergy_WATT_HOUR}
    /\ (device_class = "energy" \/ device_class = None)

\* discovery.py: the energy test of _has_energy_entity_by_name (unit only).
IsEnergyUnit(unit) ==
    unit \in {ENERGY_KILO_WATT_HOUR, ENERGY_WATT_HOUR,
              UnitOfEnergy_KILO_WATT_HOUR, UnitOfEnergy_WATT_HOUR}

\* __init__.py: the power test of the entity-registry listener.
ListenerIsPowerSensor(unit, device_class) ==
    /\ unit \in {"W", "watt", "watts"}
    /\ (device_class = "power" \/ device_class = None)

-----------------------------------------------------------------------------
(* The scan: _get_power_entities.                                           *)

\* registry.entities.values(): the registered entities in registry order.
RegistryEntities(reg) ==
    SelectSeq(RegistryOrder, LAMBDA e : reg[e].registered)

\* entity_registry.async_get(entity_id): the entry with that id, or None.
RegistryGet(reg, entity_id) ==
    IF \E e \in Entities : reg[e].registered /\ EntityId(e) = entity_id
    THEN CHOOSE e \in Entities : reg[e].registered /\ EntityId(e) = entity_id
    ELSE 0

GetPowerEntitiesKeepsDisabled(reg, st, excl) ==
    SelectSeq(RegistryEntities(reg),
              LAMBDA e : /\ Domain(e) = "sensor"
                         /\ e \notin excl
                         /\ st[e].present
                         /\ IsPowerSensor(st[e].unit, st[e].device_class))

GetPowerEntitiesKeepsExcluded(reg, st, excl) ==
    SelectSeq(RegistryEntities(reg),
              LAMBDA e : /\ Domain(e) = "sensor"
                         /\ ~reg[e].disabled
                         /\ st[e].present
                         /\ IsPowerSensor(st[e].unit, st[e].device_class))

GetPowerEntities(reg, st, excl) ==
    SelectSeq(RegistryEntities(reg),
              LAMBDA e : /\ Domain(e) = "sensor"
                         /\ ~(reg[e].disabled \/ e \in excl)
                         /\ st[e].present
                         /\ IsPowerSensor(st[e].unit, st[e].device_class))

-----------------------------------------------------------------------------
(* The matcher: _has_energy_entity and _has_energy_entity_by_name.          *)

\* The six candidate names, in the order of energy_patterns.
EnergyPatternsSuffixesOnly(power_name) ==
    << power_name \o <<"_", "energy">>,
       power_name \o <<"_", "total", "_", "energy">> >>

EnergyPatterns(power_name) ==
    << Replace(power_name, <<"_", "power">>, <<"_", "energy">>),
       Replace(power_name, <<"_", "power">>, <<"_", "total", "_", "energy">>),
       Replace(power_name, <<"power">>, <<"energy">>),
       Replace(power_name, <<"power">>, <<"total", "_", "energy">>),
       power_name \o <<"_", "energy">>,
       power_name \o <<"_", "total", "_", "energy">> >>

HasEnergyEntityByName(reg, st, power_entity) ==
    LET power_name == Replace(EntityId(power_entity), <<"sensor", ".">>, <<>>)
        energy_patterns == EnergyPatterns(power_name)
    IN  \E i \in 1..Len(energy_patterns) :
            LET energy_entity_id == <<"sensor", ".">> \o energy_patterns[i]
                found == RegistryGet(reg, energy_entity_id)
            IN  /\ found # 0
                /\ st[found].present
                /\ IsEnergyUnit(st[found].unit)

\* er.async_entries_for_device(entity_registry, device_id)
EntriesForDevice(reg, device_id) ==
    SelectSeq(RegistryEntities(reg),
              LAMBDA e : DeviceIdOf(e) = device_id /\ ~reg[e].disabled)

HasEnergyEntityOnDevice(reg, st, device_id) ==
    LET device_entities == EntriesForDevice(reg, device_id)
    IN  \E i \in 1..Len(device_entities) :
            LET entity == device_entities[i]
            IN  /\ ~(reg[entity].disabled \/ Domain(entity) # "sensor")
                /\ st[entity].present
                /\ IsEnergySensor(st[entity].unit, st[entity].device_class)

HasEnergyEntityFallsThrough(reg, st, power_entity) ==
    \/ /\ DeviceIdOf(power_entity) # None
       /\ HasEnergyEntityOnDevice(reg, st, DeviceIdOf(power_entity))
    \/ HasEnergyEntityByName(reg, st, power_entity)

HasEnergyEntity(reg, st, power_entity) ==
    IF DeviceIdOf(power_entity) = None
    THEN HasEnergyEntityByName(reg, st, power_entity)
    ELSE HasEnergyEntityOnDevice(reg, st, DeviceIdOf(power_entity))

-----------------------------------------------------------------------------
(* Grouping and dispatch.                                                   *)

\* One step of the loop of _group_entities_by_device.  The mapping is kept
\* as a sequence of [device_id, entities] in key insertion order.
GroupAdd(device_groups, entity) ==
    IF \E i \in 1..Len(device_groups) :
           device_groups[i].device_id = DeviceIdOf(entity)
    THEN [i \in 1..Len(device_groups) |->
             IF device_groups[i].device_id = DeviceIdOf(entity)
             THEN [device_groups[i] EXCEPT !.entities = Append(@, entity)]
             ELSE device_groups[i]]
    ELSE Append(device_groups,
                [device_id |-> DeviceIdOf(entity), entities |-> <<entity>>])

RECURSIVE GroupFrom(_, _, _)
GroupFrom(power_entities, i, device_groups) ==
    IF i > Len(power_entities) THEN device_groups
    ELSE GroupFrom(power_entities, i + 1,
                   GroupAdd(device_groups, power_entities[i]))

GroupEntitiesByDevice(power_entities) == GroupFrom(power_entities, 1, <<>>)

\* The units the dispatch loop of async_discover_and_create_sensors hands on:
\* each entity of the None group on its own to _init_entity_discovery, each
\* other group whole to _init_device_discovery.
UnitsOfGroupPerEntity(group) ==
    [i \in 1..Len(group.entities) |->
        [kind |-> IF group.device_id = None THEN "entity" ELSE "device",
         device_id |-> group.device_id,
         entities |-> <<group.entities[i]>>]]

UnitsOfGroupKeepsNoneGroup(group) ==
    << [kind |-> IF group.device_id = None THEN "entity" ELSE "device",
        device_id |-> group.device_id, entities |-> group.entities] >>

UnitsOfGroup(group) ==
    IF group.device_id = None
    THEN [i \in 1..Len(group.entities) |->
             [kind |-> "entity", device_id |-> None,
              entities |-> <<group.entities[i]>>]]
    ELSE << [kind |-> "device", device_id |-> group.device_id,
             entities |-> group.entities] >>

RECURSIVE DispatchFrom(_, _)
DispatchFrom(device_groups, i) ==
    IF i > Len(device_groups) THEN <<>>
    ELSE UnitsOfGroup(device_groups[i]) \o DispatchFrom(device_groups, i + 1)

DispatchUnits(device_groups) == DispatchFrom(device_groups, 1)

\* The filter loop of async_discover_and_create_sensors.
EntitiesNeedingEnergyKeepsAll(reg, st, power_entities) == power_entities

EntitiesNeedingEnergy(reg, st, power_entities) ==
    SelectSeq(power_entities, LAMBDA e : ~HasEnergyEntity(reg, st, e))

-----------------------------------------------------------------------------
(* Unique ids and discovery data.                                           *)

\* expected_unique_id of _init_device_discovery.
DeviceUniqueId(device_id, primary_entity) ==
    IF device_id # None
    THEN <<"energycalc_device_", device_id>>
    ELSE <<"energycalc_no_device_">> \o EntityId(primary_entity)

\* The unique id _init_entity_discovery looks up.
EntityUniqueKey(power_entity) == <<"energycalc_">> \o EntityId(power_entity)

\* The unique id a dispatch unit is looked up under.
UnitKey(unit) ==
    IF unit.kind = "device"
    THEN DeviceUniqueId(unit.device_id, unit.entities[1])
    ELSE EntityUniqueKey(unit.entities[1])

\* x or y, on names.
OrPrefersSecond(x, y) == IF y # <<>> THEN y ELSE x

Or(x, y) == IF x # <<>> THEN x ELSE y

EntityIds(power_entities) ==
    [i \in 1..Len(power_entities) |-> EntityId(power_entities[i])]

\* discovery_data of _init_device_discovery.
DeviceDiscoveryData(power_entities) ==
    LET primary_entity == power_entities[1]
        device_id == DeviceIdOf(primary_entity)
        has_entry == device_id # None /\ HasDeviceEntry(device_id)
        device_name == IF has_entry
                       THEN Or(DeviceEntry(device_id).name_by_user,
                               DeviceEntry(device_id).name)
                       ELSE <<>>
        entity_name == Or(EntityName(primary_entity),
                          EntityOriginalName(primary_entity))
        base == [power_entity_ids |-> EntityIds(power_entities),
                 device_id |-> device_id,
                 area_id |-> EntityAreaId(primary_entity),
                 unique_id |-> DeviceUniqueId(device_id, primary_entity)]
    IN  IF has_entry /\ device_name # <<>>
        THEN base @@ [device_name |-> device_name,
                      manufacturer |-> DeviceEntry(device_id).manufacturer,
                      model |-> DeviceEntry(device_id).model]
        ELSE base @@ [device_name |->
                          Or(entity_name,
                             IdDerivedName(EntityId(primary_entity)))]

\* discovery_data of _init_entity_discovery (the dispatch loop calls it only
\* for entities without a device, so device_entry is None there).
EntityDiscoveryData(power_entity) ==
    LET entity_name == Or(EntityName(power_entity),
                          EntityOriginalName(power_entity))
    IN  [power_entity_id |-> EntityId(power_entity),
         unique_id |-> EntityUniqueId(power_entity),
         device_id |-> DeviceIdOf(power_entity),
         area_id |-> EntityAreaId(power_entity),
         device_name |-> Or(entity_name,
                            IdDerivedName(EntityId(power_entity)))]

UnitData(unit) ==
    IF unit.kind = "device"
    THEN DeviceDiscoveryData(unit.entities)
    ELSE EntityDiscoveryData(unit.entities[1])

\* entry.unique_id == key for some config entry.
HasConfigEntry(config_entries, key) ==
    \E i \in 1..Len(config_entries) : config_entries[i].unique_id = key

\* The early return of _init_device_discovery / _init_entity_discovery.
SkipsUnitNever(config_entries, unit) == FALSE

SkipsUnit(config_entries, unit) ==
    \/ unit.entities = <<>>
    \/ HasConfigEntry(config_entries, UnitKey(unit))

-----------------------------------------------------------------------------
(* Tasks on the event loop.  A task runs from one suspension point to the   *)
(* next without any other task running in between.                          *)

InitialTask == 1
PeriodicTask == 2
ListenerTask(k) == 2 + k
Tasks == 1..(2 + MaxEvents)

NoLocals == [entity |-> 0, pass |-> 0, units |-> <<>>]

\* Whether `await self._init_device_discovery(...)` and
\* `await self._init_entity_discovery(...)` give the event loop to another
\* task: they do only if the awaited body suspends, and neither body holds an
\* await (discovery_flow.async_create_flow is a plain callback).
InitDiscoverySuspendsAlways == TRUE

InitDiscoverySuspends == FALSE

Min(a, b) == IF a < b THEN a ELSE b

EntryKeys(config_entries) ==
    {config_entries[i].unique_id : i \in 1..Len(config_entries)}

\* The unique id async_step_integration_discovery derives from discovery_info.
FlowUniqueIdFromData(discovery_info) == discovery_info.unique_id

FlowUniqueId(discovery_info) ==
    IF "power_entity_ids" \in DOMAIN discovery_info
    THEN discovery_info.unique_id
    ELSE <<"energycalc_">> \o discovery_info.power_entity_id

\* A flow of the key shows its confirm form and no config entry has the key.
AwaitingConfirmation(key) ==
    /\ \E f \in flows : f.step = "confirm" /\ f.unique_id = key
    /\ ~HasConfigEntry(entries, key)

\* `except Exception as e` around discovery_flow.async_create_flow: the
\* error is logged and the call returns normally.
CreateFlowErrorPropagates == FALSE

CreateFlowErrorCaught == TRUE

\* The requests one run of units makes, each marked with what held when
\* async_create_flow was called.
RequestsOf(units, p, failing) ==
    LET emitting == SelectSeq(units, LAMBDA u : ~SkipsUnit(entries, u))
    IN  [i \in 1..Len(emitting) |->
            [pass |-> p,
             key |-> UnitKey(emitting[i]),
             data |-> UnitData(emitting[i]),
             created |-> UnitKey(emitting[i]) \notin failing,
             error_logged |-> /\ UnitKey(emitting[i]) \in failing
                              /\ CreateFlowErrorCaught,
             awaiting |-> AwaitingConfirmation(UnitKey(emitting[i])),
             provisioned |-> HasConfigEntry(entries, UnitKey(emitting[i]))]]

SeqToSet(q) == {q[i] : i \in 1..Len(q)}

NewFlow(discovery_info) ==
    [step |-> "init", unique_id |-> <<>>, info |-> discovery_info,
     data |-> <<>>]

\* The keys for which async_create_flow may raise in one run: none, or the
\* plug's; it raises at most once in a behaviour of the model.
FailureChoices ==
    IF \A i \in 1..Len(requests) : requests[i].created
    THEN {{}, {<<"energycalc_", "sensor", ".", "plug", "_", "power">>}}
    ELSE {{}}

\* The position in units of the first unit whose async_create_flow raises,
\* or 0.
FirstFailure(units, failing) ==
    LET raising == {i \in 1..Len(units) :
                       /\ ~SkipsUnit(entries, units[i])
                       /\ UnitKey(units[i]) \in failing}
    IN  IF raising = {} THEN 0
        ELSE CHOOSE i \in raising : \A j \in raising : i <= j

\* async_discover_and_create_sensors, run by task t from where the task
\* stands (the start, or a suspended dispatch loop) to its next suspension.
\* `failing` are the keys for which async_create_flow raises.  `after` is
\* where the task stands once the pass has returned.
RunPass(t, after) ==
    LET fresh == pc[t] # "pass"
        power_entities == GetPowerEntities(registry, states, exclude_entities)
        needing == EntitiesNeedingEnergy(registry, states, power_entities)
        device_groups == GroupEntitiesByDevice(needing)
        units == IF fresh THEN DispatchUnits(device_groups)
                 ELSE locals[t].units
        n == IF InitDiscoverySuspends THEN Min(1, Len(units)) ELSE Len(units)
        now == SubSeq(units, 1, n)
        rest == SubSeq(units, n + 1, Len(units))
        p == IF fresh THEN Len(passLog) + 1 ELSE locals[t].pass
        started == IF fresh
                   THEN Append(passLog,
                               [task |-> t,
                                registry |-> registry,
                                states |-> states,
                                exclude_entities |-> exclude_entities,
                                entry_keys |-> EntryKeys(entries),
                                power_entities |-> power_entities,
                                entities_needing_energy |-> needing,
                                device_groups |-> device_groups,
                                units |-> units,
                                processed |-> <<>>,
                                emitted |-> <<>>,
                                discovered_count |-> 0,
                                aborted |-> FALSE,
                                complete |-> FALSE])
                   ELSE passLog
    IN  /\ fresh => Len(passLog) < MaxPasses
        /\ \E failing \in FailureChoices :
              LET first == FirstFailure(now, failing)
                  aborted == first # 0 /\ ~CreateFlowErrorCaught
                  handed == IF aborted THEN SubSeq(now, 1, first) ELSE now
                  reqs == RequestsOf(handed, p, failing)
                  returns == aborted \/ rest = <<>>
              IN  /\ passLog' = [started EXCEPT
                         ![p].processed = @ \o handed,
                         ![p].emitted =
                             @ \o [i \in 1..Len(reqs) |-> reqs[i].key],
                         ![p].discovered_count =
                             @ + Len(handed) - (IF aborted THEN 1 ELSE 0),
                         ![p].aborted = aborted,
                         ![p].complete = (rest = <<>> /\ ~aborted)]
                  /\ requests' = requests \o reqs
                  /\ flows' = flows \cup
                         {NewFlow(reqs[i].data) :
                             i \in {j \in 1..Len(reqs) : reqs[j].created}}
                  /\ pc' = [pc EXCEPT ![t] = IF returns THEN after
                                             ELSE "pass"]
                  /\ locals' = [locals EXCEPT
                         ![t].pass = p,
                         ![t].units = IF returns THEN <<>> ELSE rest]

-----------------------------------------------------------------------------
(* async_setup and the three triggers.                                      *)

\* `if DOMAIN in config`
DiscoveryEnabledAlways == TRUE

DiscoveryEnabled == yaml_configured

SERVICE_CREATE_ENERGY_SENSOR == "create_energy_sensor"
SERVICE_REMOVE_ENERGY_SENSOR == "remove_energy_sensor"

\* async_setup: the services are registered; with the domain in the YAML
\* configuration the initial task is created, the interval is tracked and the
\* listener is registered; it returns True.
AsyncSetup ==
    /\ ~setup_done
    /\ setup_done' = TRUE
    /\ pc' = IF DiscoveryEnabled
             THEN [pc EXCEPT ![InitialTask] = "sleep30",
                             ![PeriodicTask] = "armed"]
             ELSE pc
    /\ host' = [host EXCEPT
           !.services = {SERVICE_CREATE_ENERGY_SENSOR,
                         SERVICE_REMOVE_ENERGY_SENSOR},
           !.listener = DiscoveryEnabled,
           !.setup_returned = "True"]
    /\ UNCHANGED <<registry, states, exclude_entities, yaml_configured,
                   entries, flows, requests, passLog, locals, events,
                   naming, svc>>

\* run_discovery: the 30 s sleep is over.
RunDiscovery ==
    /\ pc[InitialTask] \in {"sleep30", "pass"}
    /\ RunPass(InitialTask, "done")
    /\ UNCHANGED <<registry, states, exclude_entities, yaml_configured,
                   setup_done, entries, events,
                   naming, svc, host>>

\* periodic_discovery: the 24 h interval has elapsed.
PeriodicDiscovery ==
    /\ pc[PeriodicTask] \in {"armed", "pass"}
    /\ RunPass(PeriodicTask, "armed")
    /\ UNCHANGED <<registry, states, exclude_entities, yaml_configured,
                   setup_done, entries, events,
                   naming, svc, host>>

StartsWith(s, prefix) == Len(s) >= Len(prefix) /\ MatchesAt(s, prefix, 1)

\* What the registry event of `action` on entity e does to the registry.
RegistryAfter(e, action) ==
    CASE action = "create" ->
             [registry EXCEPT ![e] = [registered |-> TRUE, disabled |-> FALSE]]
      [] action = "update" ->
             [registry EXCEPT ![e].disabled = ~@]
      [] OTHER ->
             [registry EXCEPT ![e] = [registered |-> FALSE, disabled |-> FALSE]]

\* The registry changes after set-up and EVENT_ENTITY_REGISTRY_UPDATED fires:
\* entity_registry_updated, if it was registered, runs up to its
\* `await asyncio.sleep(1)`.
EntityRegistryUpdated(e, action) ==
    /\ setup_done
    /\ events < MaxEvents
    /\ IF action = "create" THEN ~registry[e].registered
                            ELSE registry[e].registered
    /\ registry' = RegistryAfter(e, action)
    /\ events' = events + 1
    /\ IF /\ host.listener
          /\ action \in {"create", "update"}
          /\ StartsWith(EntityId(e), <<"sensor", ".">>)
       THEN /\ pc' = [pc EXCEPT ![ListenerTask(events + 1)] = "sleep1"]
            /\ locals' = [locals EXCEPT ![ListenerTask(events + 1)].entity = e]
       ELSE UNCHANGED <<pc, locals>>
    /\ UNCHANGED <<states, exclude_entities, yaml_configured, setup_done,
                   entries, flows, requests, passLog,
                   naming, svc, host>>

\* entity_registry_updated after its sleep: the state check, then the pass.
ListenerWake(t) ==
    /\ pc[t] \in {"sleep1", "pass"}
    /\ LET state == states[locals[t].entity]
       IN  IF pc[t] = "pass" \/
              (state.present /\
               ListenerIsPowerSensor(state.unit, state.device_class))
           THEN RunPass(t, "done")
           ELSE /\ pc' = [pc EXCEPT ![t] = "done"]
                /\ UNCHANGED <<flows, requests, passLog, locals>>
    /\ UNCHANGED <<registry, states, exclude_entities, yaml_configured,
                   setup_done, entries, events,
                   naming, svc, host>>

\* A pass that raises: a host call made by async_discover_and_create_sensors
\* outside the try blocks of the two _init_*_discovery methods raises before
\* any flow is requested.
MaxFailures == 2

\* Whether the trigger wraps its pass in `try ... except Exception`:
\* run_discovery and periodic_discovery do, entity_registry_updated awaits
\* the pass bare.
TriggerCatches(trigger) == trigger \in {"initial", "periodic"}

\* The trigger of task t, whose pass raises: a trigger that catches logs the
\* error and ends as after a pass; otherwise the exception leaves the trigger.
PassRaises(t, trigger, after) ==
    /\ Len(host.failures) < MaxFailures
    /\ host' = [host EXCEPT
           !.failures = Append(@, [task |-> t,
                                   trigger |-> trigger,
                                   caught |-> TriggerCatches(trigger),
                                   logged |-> TriggerCatches(trigger)])]
    /\ pc' = [pc EXCEPT ![t] = IF TriggerCatches(trigger) THEN after
                               ELSE "raised"]
    /\ UNCHANGED <<registry, states, exclude_entities, yaml_configured,
                   setup_done, entries, flows, requests, passLog, locals,
                   events, naming, svc>>

RunDiscoveryRaises ==
    /\ pc[InitialTask] = "sleep30"
    /\ PassRaises(InitialTask, "initial", "done")

PeriodicDiscoveryRaises ==
    /\ pc[PeriodicTask] = "armed"
    /\ PassRaises(PeriodicTask, "periodic", "armed")

ListenerWakeRaises(t) ==
    /\ pc[t] = "sleep1"
    /\ LET state == states[locals[t].entity]
       IN  /\ state.present
           /\ ListenerIsPowerSensor(state.unit, state.device_class)
    /\ PassRaises(t, "registry_event", "done")

-----------------------------------------------------------------------------
(* The config flow.                                                         *)

\* dict.get(key): the value, or None.
Get(d, key) == IF key \in DOMAIN d THEN d[key] ELSE None

\* _extract_device_name
ExtractDeviceName(entity_id) ==
    LET name == IdDerivedName(entity_id)
    IN  IF name # <<>> THEN name ELSE <<"Unknown Device">>

\* self.data as async_step_integration_discovery stores it.
FlowData(discovery_info) ==
    LET power_entity_ids ==
            IF "power_entity_ids" \in DOMAIN discovery_info
            THEN discovery_info.power_entity_ids
            ELSE <<discovery_info.power_entity_id>>
        primary_entity_id == power_entity_ids[1]
        given == IF "device_name" \in DOMAIN discovery_info
                 THEN discovery_info.device_name ELSE <<>>
    IN  [power_entity_ids |-> power_entity_ids,
         device_name |-> IF given # <<>> THEN given
                         ELSE ExtractDeviceName(primary_entity_id),
         manufacturer |-> Get(discovery_info, "manufacturer"),
         model |-> Get(discovery_info, "model")]

\* async_set_unique_id raises already_in_progress, or
\* _abort_if_unique_id_configured raises already_configured.
AbortsOnUniqueIdNever(f, unique_id) == FALSE

AbortsOnUniqueId(f, unique_id) ==
    \/ \E g \in flows \ {f} : g.step = "confirm" /\ g.unique_id = unique_id
    \/ HasConfigEntry(entries, unique_id)

\* async_step_integration_discovery, through to the confirm form it shows.
IntegrationDiscoveryStep(f) ==
    /\ f \in flows
    /\ f.step = "init"
    /\ LET unique_id == FlowUniqueId(f.info)
       IN  flows' = IF AbortsOnUniqueId(f, unique_id)
                    THEN flows \ {f}
                    ELSE (flows \ {f}) \cup
                         {[step |-> "confirm", unique_id |-> unique_id,
                           info |-> f.info, data |-> FlowData(f.info)]}
    /\ UNCHANGED <<registry, states, exclude_entities, yaml_configured,
                   setup_done, entries, requests, passLog, pc, locals, events,
                   naming, svc, host>>

\* The title async_step_confirm gives the entry.
EntryTitle(data) ==
    IF Len(data.power_entity_ids) = 1
    THEN data.device_name \o <<" - Energy Sensor">>
    ELSE data.device_name \o <<" - Energy Sensors (",
                               ToString(Len(data.power_entity_ids)),
                               " power sensors)">>

\* async_step_confirm with user input: the entry is created, and the flow
\* manager ends the other flows of the same unique id.
ConfirmStep(f) ==
    /\ f \in flows
    /\ f.step = "confirm"
    /\ entries' = Append(entries,
                         [entry_id |-> Len(entries) + 1,
                          unique_id |-> f.unique_id,
                          title |-> EntryTitle(f.data),
                          data |-> f.data])
    /\ flows' = {g \in flows : g.step = "init" \/ g.unique_id # f.unique_id}
    /\ UNCHANGED <<registry, states, exclude_entities, yaml_configured,
                   setup_done, requests, passLog, pc, locals, events,
                   naming, svc, host>>

\* User-initiated flows the model lets the user start.
MaxUserFlows == 2

\* async_step_user: the flow ends at once, whatever the input.
UserStep ==
    /\ Len(host.user_flows) < MaxUserFlows
    /\ host' = [host EXCEPT
           !.user_flows = Append(@, [type |-> "abort",
                                     reason |-> "not_supported"])]
    /\ UNCHANGED <<registry, states, exclude_entities, yaml_configured,
                   setup_done, entries, flows, requests, passLog, pc, locals,
                   events, naming, svc>>

-----------------------------------------------------------------------------
(* The services of services.py.  svc.calls keeps one record per call.       *)

MaxCalls == 2

\* The keys the integration ever stores under hass.data[DOMAIN], config
\* entry ids apart.
HassDataKeys == {"exclude_entities", "energy_sensors"}

\* The keyword arguments async_create_energy_sensor passes to the
\* constructor, and the parameters PowerTotalEnergyIntegrationSensor.__init__
\* declares (all of them required).
CreateCallKeywords ==
    {"hass", "name", "source_entity", "unique_id", "integration_method",
     "round_digits", "unit_prefix", "unit_time", "max_sub_interval"}

InitParameters == {"hass", "power_entity_id", "unique_id"}

\* Python binds a keyword call when every keyword is a parameter and every
\* required parameter is given; it raises TypeError otherwise.
ConstructorAccepts(keywords) ==
    /\ keywords \subseteq InitParameters
    /\ InitParameters \subseteq keywords

\* source_name and unique_id of async_create_energy_sensor.
CreateUniqueId(source) ==
    LET source_name == Replace(EntityId(source), <<"sensor", ".">>, <<>>)
    IN  source_name \o <<"_", "total", "_", "energy">>

\* The outcome of async_create_energy_sensor for the source entity.
CreateResult(source) ==
    LET state == states[source]
    IN  IF ~state.present THEN "ServiceValidationError"
        ELSE IF state.unit \notin {"W", "watt", "watts"}
        THEN "ServiceValidationError"
        ELSE IF RegistryGet(registry,
                            <<"sensor", ".">> \o CreateUniqueId(source)) # 0
        THEN "ServiceValidationError"
        ELSE IF ~ConstructorAccepts(CreateCallKeywords) THEN "TypeError"
        ELSE "created"

\* async_create_energy_sensor
CreateEnergySensor(source) ==
    /\ setup_done
    /\ Len(svc.calls) < MaxCalls
    /\ LET result == CreateResult(source)
           adds == result = "created" /\ "sensor_platforms" \in HassDataKeys
       IN  svc' = [svc EXCEPT
               !.calls = Append(@, [service |-> "create_energy_sensor",
                                    target |-> source,
                                    result |-> result,
                                    states |-> states,
                                    registry_before |-> registry,
                                    registry_after |-> registry,
                                    added |-> adds]),
               !.added = IF adds THEN @ \cup {CreateUniqueId(source)} ELSE @]
    /\ UNCHANGED <<registry, states, exclude_entities, yaml_configured,
                   setup_done, entries, flows, requests, passLog, pc, locals,
                   events, naming, host>>

\* entity_entry.platform != DOMAIN
NotManagedNever(e) == FALSE

NotManaged(e) == Platform(e) # DOMAIN_

\* The outcome of async_remove_energy_sensor for the entity.
RemoveResult(e) ==
    IF ~registry[e].registered THEN "ServiceValidationError"
    ELSE IF NotManaged(e) THEN "ServiceValidationError"
    ELSE "removed"

\* async_remove_energy_sensor
RemoveEnergySensor(e) ==
    /\ setup_done
    /\ Len(svc.calls) < MaxCalls
    /\ LET result == RemoveResult(e)
           after == IF result = "removed"
                    THEN [registry EXCEPT ![e] = [registered |-> FALSE,
                                                  disabled |-> FALSE]]
                    ELSE registry
       IN  /\ registry' = after
           /\ svc' = [svc EXCEPT
                  !.calls = Append(@, [service |-> "remove_energy_sensor",
                                       target |-> e,
                                       result |-> result,
                                       states |-> states,
                                       registry_before |-> registry,
                                       registry_after |-> after,
                                       added |-> FALSE])]
    /\ UNCHANGED <<states, exclude_entities, yaml_configured, setup_done,
                   entries, flows, requests, passLog, pc, locals, events,
                   naming, host>>

-----------------------------------------------------------------------------
(* The accumulator of one energy sensor and async_reset_integration.  The   *)
(* reset runs from one await to the next; the sensor goes on integrating    *)
(* its source in between.                                                   *)

MaxResets == 2
MaxEnergy == 2

\* The services the recorder may offer.
RecorderServices == {"purge_entities", "clear_statistics"}

\* `except Exception as purge_error` around the purge_entities call.
PurgeErrorPropagates == FALSE

PurgeErrorCaught == TRUE

\* The integration sensor takes a new source value: state and last valid
\* state grow and the new state is written.
Accumulate ==
    /\ svc.state < MaxEnergy
    /\ svc' = [svc EXCEPT !.state = @ + 1,
                          !.last_valid_state = svc.state + 1,
                          !.ha_state = svc.state + 1,
                          !.since_reset = TRUE]
    /\ UNCHANGED <<registry, states, exclude_entities, yaml_configured,
                   setup_done, entries, flows, requests, passLog, pc, locals,
                   events, naming, host>>

\* async_reset_integration up to its first await: the accumulator is zeroed
\* and written, then purge_entities is called if the recorder offers it;
\* otherwise the statistics clearing starts at once.
ResetStart ==
    /\ svc.reset_pc = "idle"
    /\ Len(svc.resets) < MaxResets
    /\ LET purges == "purge_entities" \in svc.recorder_services
       IN  svc' = [svc EXCEPT
               !.state = 0,
               !.last_valid_state = 0,
               !.ha_state = 0,
               !.since_reset = FALSE,
               !.history_cleared = FALSE,
               !.statistics_cleared = FALSE,
               !.reset_pc = IF purges THEN "purge" ELSE "statistics",
               !.resets = Append(@, [purge |-> IF purges THEN "pending"
                                               ELSE "unavailable",
                                     statistics_attempted |-> ~purges,
                                     statistics |-> "pending",
                                     raised |-> FALSE,
                                     done |-> FALSE])]
    /\ UNCHANGED <<registry, states, exclude_entities, yaml_configured,
                   setup_done, entries, flows, requests, passLog, pc, locals,
                   events, naming, host>>

\* The purge_entities call returns or raises.
ResetPurgeReturns(outcome) ==
    /\ svc.reset_pc = "purge"
    /\ LET n == Len(svc.resets)
           goes_on == outcome = "ok" \/ PurgeErrorCaught
       IN  svc' = [svc EXCEPT
               !.history_cleared = outcome = "ok",
               !.reset_pc = IF goes_on THEN "statistics" ELSE "idle",
               !.resets[n].purge = outcome,
               !.resets[n].statistics_attempted = goes_on,
               !.resets[n].raised = ~goes_on,
               !.resets[n].done = ~goes_on]
    /\ UNCHANGED <<registry, states, exclude_entities, yaml_configured,
                   setup_done, entries, flows, requests, passLog, pc, locals,
                   events, naming, host>>

\* The statistics clearing returns (cleared, nothing to clear) or raises,
\* which is caught; the state is written again if anything was cleared.
ResetStatisticsReturns(outcome) ==
    /\ svc.reset_pc = "statistics"
    /\ LET n == Len(svc.resets)
           cleared == outcome = "ok"
       IN  svc' = [svc EXCEPT
               !.statistics_cleared = cleared,
               !.ha_state = IF svc.history_cleared \/ cleared
                            THEN svc.state ELSE @,
               !.reset_pc = "idle",
               !.resets[n].statistics = outcome,
               !.resets[n].done = TRUE]
    /\ UNCHANGED <<registry, states, exclude_entities, yaml_configured,
                   setup_done, entries, flows, requests, passLog, pc, locals,
                   events, naming, host>>

\* The services and the accumulator before anything has run.
NoSvc ==
    [calls |-> <<>>, added |-> {}, state |-> 1, last_valid_state |-> 1,
     ha_state |-> 1, since_reset |-> TRUE, recorder_services |-> {},
     history_cleared |-> FALSE, statistics_cleared |-> FALSE,
     reset_pc |-> "idle", resets |-> <<>>]

-----------------------------------------------------------------------------
(* Config entries: async_setup_entry, the two platforms, async_unload_entry *)
(* and async_reload_entry.  An entry's entry_id is its position in entries. *)

PLATFORMS == {"sensor", "button"}

\* `"power_entity_id" in entry.data or "power_entity_ids" in entry.data`
NamesPowerSourceNeedsList(data) == "power_entity_ids" \in DOMAIN data

NamesPowerSource(data) ==
    "power_entity_id" \in DOMAIN data \/ "power_entity_ids" \in DOMAIN data

\* sensor.async_setup_entry: the list it creates sensors for; a missing key
\* reads as None, and None, an empty list and an empty string are all falsy.
EntryPowerEntityIds(data) ==
    IF "power_entity_ids" \in DOMAIN data /\ data.power_entity_ids # <<>>
    THEN data.power_entity_ids
    ELSE IF "power_entity_id" \in DOMAIN data /\ data.power_entity_id # <<>>
    THEN <<data.power_entity_id>>
    ELSE <<>>

\* f"{config_entry.entry_id}_energy_{i}"
SensorUniqueIdDropsIndex(entry_id, i) == <<ToString(entry_id), "_energy">>

SensorUniqueId(entry_id, i) ==
    <<ToString(entry_id), "_energy_", ToString(i)>>

\* The entity id the host derives from the sensor's name: the name is the
\* power entity's id without "sensor.", title-cased, a final " Power"
\* dropped and " Energy" appended.
SensorEntityId(power_entity_id) ==
    LET name == Replace(power_entity_id, <<"sensor", ".">>, <<>>)
        n == Len(name)
    IN  IF n >= 2 /\ SubSeq(name, n - 1, n) = <<"_", "power">>
        THEN <<"sensor", ".">> \o SubSeq(name, 1, n - 2) \o <<"_", "energy">>
        ELSE <<"sensor", ".">> \o name \o <<"_", "energy">>

\* The sensors sensor.async_setup_entry hands to async_add_entities.
EntrySensors(entry) ==
    LET power_entity_ids == EntryPowerEntityIds(entry.data)
    IN  {[entry |-> entry.entry_id,
          domain |-> "sensor",
          index |-> i - 1,
          unique_id |-> SensorUniqueId(entry.entry_id, i - 1),
          source |-> power_entity_ids[i],
          entity_id |-> SensorEntityId(power_entity_ids[i])] :
            i \in 1..Len(power_entity_ids)}

\* The button button.async_setup_entry hands to async_add_entities.
EntryButton(entry) ==
    [entry |-> entry.entry_id,
     domain |-> "button",
     index |-> 0,
     unique_id |-> entry.unique_id \o <<"_reset_button">>,
     source |-> <<>>,
     entity_id |-> <<"button", ".", "reset_energy_sensors", "_",
                     ToString(entry.entry_id)>>]

\* `hass.data[DOMAIN]["energy_sensors"][sensor.entity_id] = sensor` for each
\* sensor in order.  sensor.entity_id is assigned by the host while it adds
\* the entity: at once where async_add_entities starts its task eagerly,
\* later otherwise, and then every sensor is stored under the key None.
StoreReferences(energy_sensors, sensors, eager_add) ==
    IF sensors = {} THEN energy_sensors
    ELSE IF eager_add
    THEN {r \in energy_sensors :
             \A x \in sensors : r.key # x.entity_id}
         \cup {[key |-> x.entity_id, entry |-> x.entry,
                 unique_id |-> x.unique_id] : x \in sensors}
    ELSE LET last == CHOOSE x \in sensors :
                         \A y \in sensors : y.index <= x.index
         IN  {r \in energy_sensors : r.key # <<>>}
             \cup {[key |-> <<>>, entry |-> last.entry,
                     unique_id |-> last.unique_id]}

\* async_setup_entry of __init__.py with the platform set-ups it forwards to.
SetupHost(h, entry) ==
    IF NamesPowerSource(entry.data)
    THEN [h EXCEPT
             !.data = @ \cup {entry.entry_id},
             !.platform = @ \cup EntrySensors(entry) \cup {EntryButton(entry)},
             !.energy_sensors =
                 StoreReferences(@, EntrySensors(entry), h.eager_add),
             !.loaded = @ \cup {entry.entry_id},
             !.last = [op |-> "setup", entry |-> entry.entry_id,
                       result |-> TRUE, forwarded |-> PLATFORMS]]
    ELSE [h EXCEPT
             !.data = @ \cup {entry.entry_id},
             !.last = [op |-> "setup", entry |-> entry.entry_id,
                       result |-> FALSE, forwarded |-> {}]]

\* async_unload_entry; unload_ok is what async_unload_platforms returns.
UnloadHost(h, entry, unload_ok) ==
    IF unload_ok
    THEN [h EXCEPT
             !.platform = {x \in @ : x.entry # entry.entry_id},
             !.data = @ \ {entry.entry_id},
             !.loaded = @ \ {entry.entry_id},
             !.last = [op |-> "unload", entry |-> entry.entry_id,
                       result |-> TRUE, forwarded |-> {}]]
    ELSE [h EXCEPT
             !.last = [op |-> "unload", entry |-> entry.entry_id,
                       result |-> FALSE, forwarded |-> {}]]

\* The host sets up an entry that is not loaded.
SetupEntry(k) ==
    /\ k \in 1..Len(entries)
    /\ k \notin host.loaded
    /\ host' = SetupHost(host, entries[k])
    /\ UNCHANGED <<registry, states, exclude_entities, yaml_configured,
                   setup_done, entries, flows, requests, passLog, pc, locals,
                   events, naming, svc>>

\* The host unloads a loaded entry.
UnloadEntry(k, unload_ok) ==
    /\ k \in host.loaded
    /\ host' = UnloadHost(host, entries[k], unload_ok)
    /\ UNCHANGED <<registry, states, exclude_entities, yaml_configured,
                   setup_done, entries, flows, requests, passLog, pc, locals,
                   events, naming, svc>>

\* async_reload_entry: the unload, then the set-up whatever the unload
\* returned.
ReloadEntry(k, unload_ok) ==
    /\ k \in host.loaded
    /\ host' = SetupHost(UnloadHost(host, entries[k], unload_ok), entries[k])
    /\ UNCHANGED <<registry, states, exclude_entities, yaml_configured,
                   setup_done, entries, flows, requests, passLog, pc, locals,
                   events, naming, svc>>

-----------------------------------------------------------------------------
(* The reset button: EnergyResetButton.async_press.                         *)

MaxPresses == 1

\* `except Exception as reset_error` around the reset of one sensor.
ResetErrorAbortsPress == FALSE

ResetErrorCaught == TRUE

\* er.async_entries_for_config_entry: the entry's sensors by index, then its
\* button.
ConfigEntryEntities(h, k) ==
    LET sensors == {x \in h.platform : x.entry = k /\ x.domain = "sensor"}
        buttons == {x \in h.platform : x.entry = k /\ x.domain = "button"}
    IN  [i \in 1..Cardinality(sensors) |->
            CHOOSE x \in sensors : x.index = i - 1]
        \o (IF buttons = {} THEN <<>> ELSE <<CHOOSE x \in buttons : TRUE>>)

\* The loop over config_entry_entities from position i on.  with_state are
\* the indexes of the sensors whose state exists and has a source_entity
\* attribute, raising those whose reset raises.
RECURSIVE PressLoop(_, _, _, _, _, _)
PressLoop(h, entities, i, with_state, raising, acc) ==
    IF i > Len(entities) \/ acc.aborted THEN acc
    ELSE LET x == entities[i]
             found == \E r \in h.energy_sensors : r.key = x.entity_id
         IN  IF ~(StartsWith(x.entity_id, <<"sensor", ".">>)
                  /\ x.domain # "button")
             THEN PressLoop(h, entities, i + 1, with_state, raising, acc)
             ELSE IF x.index \notin with_state
             THEN PressLoop(h, entities, i + 1, with_state, raising, acc)
             ELSE IF x.index \in raising
             THEN IF ResetErrorCaught
                  THEN PressLoop(h, entities, i + 1, with_state, raising,
                                 [acc EXCEPT !.failed_resets =
                                                 Append(@, x.entity_id)])
                  ELSE [acc EXCEPT !.aborted = TRUE]
             ELSE PressLoop(h, entities, i + 1, with_state, raising,
                            [acc EXCEPT
                                !.reset_count = @ + 1,
                                !.reset = Append(@, x.entity_id),
                                !.methods = Append(@,
                                    IF found THEN "async_reset_integration"
                                    ELSE "states.async_set")])

\* 's' if n != 1 else ''
Plural(n) == IF n # 1 THEN <<"s">> ELSE <<>>

\* The persistent notification async_press creates.
PressNotification(acc, entry_id) ==
    IF acc.aborted
    THEN [title |-> "EnergyCalc Reset Error",
          message |-> <<"Error resetting energy sensors: ", "reset_error">>,
          notification_id |-> <<"energycalc_reset_error_",
                                ToString(entry_id)>>]
    ELSE IF acc.reset_count > 0
    THEN [title |-> "EnergyCalc Reset Complete",
          message |->
              <<"Successfully reset ", ToString(acc.reset_count),
                " energy sensor">> \o Plural(acc.reset_count)
              \o (IF acc.failed_resets # <<>>
                  THEN <<". Failed to reset ",
                         ToString(Len(acc.failed_resets)), " sensor">>
                       \o Plural(Len(acc.failed_resets))
                  ELSE <<>>),
          notification_id |-> <<"energycalc_reset_", ToString(entry_id)>>]
    ELSE [title |-> "EnergyCalc Reset",
          message |->
              IF acc.failed_resets # <<>>
              THEN <<"Failed to reset all ",
                     ToString(Len(acc.failed_resets)), " energy sensors">>
              ELSE <<"No energy sensors found to reset">>,
          notification_id |-> <<"energycalc_reset_", ToString(entry_id)>>]

\* async_press of the button of entry k.
ButtonPress(k, with_state, raising) ==
    /\ k \in host.loaded
    /\ Len(host.presses) < MaxPresses
    /\ raising \subseteq with_state
    /\ LET entities == ConfigEntryEntities(host, k)
           acc == PressLoop(host, entities, 1, with_state, raising,
                            [reset_count |-> 0, reset |-> <<>>,
                             methods |-> <<>>, failed_resets |-> <<>>,
                             aborted |-> FALSE])
       IN  host' = [host EXCEPT
               !.presses = Append(@,
                   [entry |-> k,
                    sensors |-> {x \in host.platform :
                                    x.entry = k /\ x.domain = "sensor"},
                    with_state |-> with_state,
                    raising |-> raising,
                    reset_count |-> acc.reset_count,
                    reset |-> acc.reset,
                    methods |-> acc.methods,
                    failed_resets |-> acc.failed_resets,
                    notification |-> PressNotification(acc, k)])]
    /\ UNCHANGED <<registry, states, exclude_entities, yaml_configured,
                   setup_done, entries, flows, requests, passLog, pc, locals,
                   events, naming, svc>>

\* What the host holds of the integration before async_setup has run.
NoHost ==
    [services |-> {}, listener |-> FALSE, setup_returned |-> None,
     failures |-> <<>>, user_flows |-> <<>>,
     eager_add |-> TRUE, data |-> {}, energy_sensors |-> {}, loaded |-> {},
     platform |-> {}, presses |-> <<>>,
     last |-> [op |-> "none", entry |-> 0, result |-> FALSE,
               forwarded |-> {}]]

-----------------------------------------------------------------------------
(* Specifications.                                                          *)

Reg(r, d) == [registered |-> r, disabled |-> d]

InitRest ==
    /\ setup_done = FALSE
    /\ flows = {}
    /\ requests = <<>>
    /\ passLog = <<>>
    /\ pc = [t \in Tasks |-> IF t \in {InitialTask, PeriodicTask}
                             THEN "unscheduled" ELSE "idle"]
    /\ locals = [t \in Tasks |-> NoLocals]
    /\ events = 0
    /\ host = NoHost

\* The installation at start-up: the stray name sibling of the strip is not
\* registered yet, the second deviceless power sensor is disabled, and
\* neither the plug nor the strip reports energy.
Init ==
    /\ registry = [e \in Entities |-> Reg(e \notin {7, 9}, e = 8)]
    /\ states = [e \in Entities |->
                    CASE e \in {2, 5, 9} -> NoState
                      [] e \in {6, 7} -> St("kWh", "energy")
                      [] OTHER -> St("W", "power")]
    /\ exclude_entities = {}
    /\ yaml_configured \in BOOLEAN
    /\ entries = <<>>
    /\ naming = DefaultNaming
    /\ svc = NoSvc
    /\ InitRest

\* The registry events of the environment.
EventChoices ==
    { <<4, "update">>, <<7, "create">>, <<6, "remove">> }

Next ==
    \/ AsyncSetup
    \/ RunDiscovery
    \/ PeriodicDiscovery
    \/ \E c \in EventChoices : EntityRegistryUpdated(c[1], c[2])
    \/ \E t \in Tasks \ {InitialTask, PeriodicTask} : ListenerWake(t)
    \/ \E f \in flows : IntegrationDiscoveryStep(f)
    \/ \E f \in flows : ConfirmStep(f)

Spec == Init /\ [][Next]_vars

\* The three triggers over installations with and without the domain in the
\* YAML configuration, with and without the second outlet excluded, and with
\* the disabled sensor reporting in W or in watt; the passes may raise.
InitTriggers ==
    /\ registry = [e \in Entities |-> Reg(e \notin {7, 9}, e = 8)]
    /\ \E s8 \in {St("W", "power"), St("watt", "power")} :
          states = [e \in Entities |->
                       CASE e \in {2, 5, 9} -> NoState
                         [] e \in {6, 7} -> St("kWh", "energy")
                         [] e = 8 -> s8
                         [] OTHER -> St("W", "power")]
    /\ exclude_entities \in {{}, {4}}
    /\ yaml_configured \in BOOLEAN
    /\ entries = <<>>
    /\ naming = DefaultNaming
    /\ svc = NoSvc
    /\ InitRest

TriggerEventChoices ==
    { <<8, "update">>, <<7, "create">>, <<6, "remove">> }

NextTriggers ==
    \/ AsyncSetup
    \/ RunDiscovery
    \/ PeriodicDiscovery
    \/ \E c \in TriggerEventChoices : EntityRegistryUpdated(c[1], c[2])
    \/ \E t \in Tasks \ {InitialTask, PeriodicTask} : ListenerWake(t)
    \/ RunDiscoveryRaises
    \/ PeriodicDiscoveryRaises
    \/ \E t \in Tasks \ {InitialTask, PeriodicTask} : ListenerWakeRaises(t)

SpecTriggers == InitTriggers /\ [][NextTriggers]_vars

\* The config flow fed by the initial and the periodic pass, and by the user.
InitFlow ==
    /\ registry = [e \in Entities |-> Reg(e \notin {7, 9}, e = 8)]
    /\ states = [e \in Entities |->
                    CASE e \in {2, 5, 9} -> NoState
                      [] e \in {6, 7} -> St("kWh", "energy")
                      [] OTHER -> St("W", "power")]
    /\ exclude_entities = {}
    /\ yaml_configured = TRUE
    /\ entries = <<>>
    /\ naming = DefaultNaming
    /\ svc = NoSvc
    /\ InitRest

NextFlow ==
    \/ AsyncSetup
    \/ RunDiscovery
    \/ PeriodicDiscovery
    \/ \E f \in flows : IntegrationDiscoveryStep(f)
    \/ \E f \in flows : ConfirmStep(f)
    \/ UserStep

SpecFlow == InitFlow /\ [][NextFlow]_vars

\* Entries the store holds from earlier versions of the integration: one in
\* the single-entity format, one with an empty list, one without a power
\* source.
StoredEntry(k, data) ==
    [entry_id |-> k,
     unique_id |-> <<"stored_", ToString(k)>>,
     title |-> data.device_name,
     data |-> data]

StoredEntries ==
    << StoredEntry(1, [power_entity_id |-> EntityId(1),
                       device_name |-> <<"Plug">>]),
       StoredEntry(2, [power_entity_ids |-> <<>>,
                       device_name |-> <<"Empty">>]),
       StoredEntry(3, [device_name |-> <<"Discovery">>]) >>

\* Discovery info in the single-entity format.
LegacyInfo ==
    [power_entity_id |-> EntityId(8), device_name |-> <<>>]

\* Config entries from the store and from two discovery flows, one for the
\* strip and one in the single-entity format, on hosts that add entities
\* eagerly or not.
InitEntries ==
    /\ registry = [e \in Entities |-> Reg(e \notin {7, 9}, e = 8)]
    /\ states = [e \in Entities |->
                    CASE e \in {2, 5, 9} -> NoState
                      [] e \in {6, 7} -> St("kWh", "energy")
                      [] OTHER -> St("W", "power")]
    /\ exclude_entities = {}
    /\ yaml_configured = TRUE
    /\ entries = StoredEntries
    /\ naming = DefaultNaming
    /\ svc = NoSvc
    /\ setup_done = TRUE
    /\ flows = {NewFlow(DeviceDiscoveryData(<<3, 4>>)), NewFlow(LegacyInfo)}
    /\ requests = <<>>
    /\ passLog = <<>>
    /\ pc = [t \in Tasks |-> "done"]
    /\ locals = [t \in Tasks |-> NoLocals]
    /\ events = 0
    /\ \E eager_add \in BOOLEAN :
          host = [NoHost EXCEPT !.eager_add = eager_add]

NextEntries ==
    \/ \E f \in flows : IntegrationDiscoveryStep(f)
    \/ \E f \in flows : ConfirmStep(f)
    \/ \E k \in 1..Len(entries) : SetupEntry(k)
    \/ \E k \in 1..Len(entries), unload_ok \in BOOLEAN :
           UnloadEntry(k, unload_ok)
    \/ \E k \in 1..Len(entries), unload_ok \in BOOLEAN :
           ReloadEntry(k, unload_ok)

SpecEntries == InitEntries /\ [][NextEntries]_vars

\* The config entry an earlier run of the installation created for the strip
\* (config entries persist across restarts).
StripEntry ==
    LET data == FlowData(DeviceDiscoveryData(<<3, 4>>))
    IN  [entry_id |-> 1,
         unique_id |-> FlowUniqueId(DeviceDiscoveryData(<<3, 4>>)),
         title |-> EntryTitle(data),
         data |-> data]

\* The reset buttons of two entries, the strip's with two sensors and a
\* stored one with three, on hosts that add entities eagerly or not.
InitButton ==
    /\ naming = DefaultNaming
    /\ registry = [e \in Entities |-> Reg(e \notin {7, 9}, e = 8)]
    /\ states = [e \in Entities |->
                    CASE e \in {2, 5, 9} -> NoState
                      [] e \in {6, 7} -> St("kWh", "energy")
                      [] OTHER -> St("W", "power")]
    /\ exclude_entities = {}
    /\ yaml_configured = TRUE
    /\ entries = << StripEntry,
                    StoredEntry(2, [power_entity_ids |->
                                        <<EntityId(1), EntityId(3),
                                          EntityId(8)>>,
                                    device_name |-> <<"Rack">>]) >>
    /\ svc = NoSvc
    /\ setup_done = TRUE
    /\ flows = {}
    /\ requests = <<>>
    /\ passLog = <<>>
    /\ pc = [t \in Tasks |-> "done"]
    /\ locals = [t \in Tasks |-> NoLocals]
    /\ events = 0
    /\ \E eager_add \in BOOLEAN :
          host = [NoHost EXCEPT !.eager_add = eager_add]

\* The indexes of an entry's sensors.
SensorIndexes == {0, 1, 2}

NextButton ==
    \/ \E k \in 1..Len(entries) : SetupEntry(k)
    \/ \E k \in 1..Len(entries), unload_ok \in BOOLEAN :
           UnloadEntry(k, unload_ok)
    \/ \E k \in 1..Len(entries), with_state \in SUBSET SensorIndexes :
           \E raising \in SUBSET with_state :
               ButtonPress(k, with_state, raising)

SpecButton == InitButton /\ [][NextButton]_vars

\* The matcher and classifier over a range of registries and states: one
\* initial pass per installation, the strip provisioned before or not.  An
\* option pairs an entity's registry entry with its state.
Opt(registered, disabled, state) ==
    [reg |-> Reg(registered, disabled), st |-> state]

Options(e) ==
    CASE e = 1 -> {Opt(TRUE, FALSE, NoState),
                   Opt(TRUE, FALSE, St("W", None)),
                   Opt(TRUE, FALSE, St("W", "power")),
                   Opt(TRUE, FALSE, St("W", "humidity")),
                   Opt(TRUE, FALSE, St("watt", "power")),
                   Opt(TRUE, FALSE, St(None, "power")),
                   Opt(TRUE, TRUE, St("W", "power"))}
      [] e = 2 -> {Opt(FALSE, FALSE, St("kWh", None)),
                   Opt(TRUE, FALSE, NoState),
                   Opt(TRUE, FALSE, St("kWh", None)),
                   Opt(TRUE, FALSE, St("Wh", "energy")),
                   Opt(TRUE, FALSE, St("kWh", "humidity")),
                   Opt(TRUE, FALSE, St("W", "power")),
                   Opt(TRUE, TRUE, St("kWh", None))}
      [] e = 3 -> {Opt(TRUE, FALSE, St("W", None))}
      [] e = 4 -> {Opt(TRUE, FALSE, St("W", "power")),
                   Opt(TRUE, TRUE, St("W", "power"))}
      [] e = 5 -> {Opt(TRUE, FALSE, NoState),
                   Opt(TRUE, FALSE, St("kWh", "energy")),
                   Opt(TRUE, FALSE, St("Wh", None)),
                   Opt(TRUE, FALSE, St("kWh", "humidity")),
                   Opt(TRUE, FALSE, St("W", "power")),
                   Opt(TRUE, TRUE, St("kWh", "energy"))}
      [] e = 6 -> {Opt(TRUE, FALSE, NoState),
                   Opt(TRUE, FALSE, St("kWh", "energy"))}
      [] e = 7 -> {Opt(FALSE, FALSE, St("kWh", "energy")),
                   Opt(TRUE, FALSE, St("kWh", "energy"))}
      [] e = 9 -> {Opt(FALSE, FALSE, NoState)}
      [] OTHER -> {Opt(TRUE, FALSE, St("W", "power"))}

InitMatcher ==
    /\ naming = DefaultNaming
    /\ svc = NoSvc
    /\ \E o1 \in Options(1), o2 \in Options(2), o4 \in Options(4),
          o5 \in Options(5), o6 \in Options(6), o7 \in Options(7) :
          LET o == [e \in Entities |->
                       CASE e = 1 -> o1 [] e = 2 -> o2 [] e = 4 -> o4
                         [] e = 5 -> o5 [] e = 6 -> o6 [] e = 7 -> o7
                         [] OTHER -> CHOOSE x \in Options(e) : TRUE]
          IN  /\ registry = [e \in Entities |-> o[e].reg]
              /\ states = [e \in Entities |-> o[e].st]
    /\ exclude_entities \in {{}, {4}}
    /\ yaml_configured = TRUE
    /\ entries \in {<<>>, <<StripEntry>>}
    /\ InitRest

NextMatcher ==
    \/ AsyncSetup
    \/ RunDiscovery

SpecMatcher == InitMatcher /\ [][NextMatcher]_vars

\* The names the registries may hold, over an installation where the two
\* sensors without a device and both outlets of the strip need an energy
\* sensor.
Namings ==
    [has_entry : BOOLEAN,
     name_by_user : {<<>>, <<"Desk", " ", "Strip">>},
     name : {<<>>, <<"Strip">>},
     entity_name : {<<>>, <<"Outlet">>},
     original_name : {<<>>, <<"Socket">>}]

InitNames ==
    /\ naming \in Namings
    /\ svc = NoSvc
    /\ registry = [e \in Entities |-> Reg(e \notin {7, 9}, FALSE)]
    /\ states = [e \in Entities |->
                    CASE e \in {2, 5, 9} -> NoState
                      [] e \in {6, 7} -> St("kWh", "energy")
                      [] OTHER -> St("W", "power")]
    /\ exclude_entities = {}
    /\ yaml_configured = TRUE
    /\ entries = <<>>
    /\ InitRest

NextNames ==
    \/ AsyncSetup
    \/ RunDiscovery
    \/ \E f \in flows : IntegrationDiscoveryStep(f)
    \/ \E f \in flows : ConfirmStep(f)

SpecNames == InitNames /\ [][NextNames]_vars

\* The two services over a few installations: the plug reports power,
\* energy or nothing, and its energy sensors are registered or not.
InitServices ==
    /\ naming = DefaultNaming
    /\ svc = NoSvc
    /\ \E r2, r9 \in BOOLEAN :
          registry = [e \in Entities |->
                         CASE e = 2 -> Reg(r2, FALSE)
                           [] e = 9 -> Reg(r9, FALSE)
                           [] OTHER -> Reg(e # 7, e = 8)]
    /\ \E s1 \in {NoState, St("W", "power"), St("watt", None),
                   St("kWh", "energy")} :
          states = [e \in Entities |->
                       CASE e = 1 -> s1
                         [] e \in {5, 9} -> NoState
                         [] e \in {2, 6, 7} -> St("kWh", "energy")
                         [] OTHER -> St("W", "power")]
    /\ exclude_entities = {}
    /\ yaml_configured = FALSE
    /\ entries = <<>>
    /\ InitRest

\* The entities the services are called with.
CreateChoices == {1, 2, 3}
RemoveChoices == {2, 3, 7, 9}

NextServices ==
    \/ AsyncSetup
    \/ \E e \in CreateChoices : CreateEnergySensor(e)
    \/ \E e \in RemoveChoices : RemoveEnergySensor(e)

SpecServices == InitServices /\ [][NextServices]_vars

\* One energy sensor, its resets and its source, over the recorders the
\* host may run.
InitReset ==
    /\ naming = DefaultNaming
    /\ \E rs \in SUBSET RecorderServices :
          svc = [NoSvc EXCEPT !.recorder_services = rs]
    /\ registry = [e \in Entities |-> Reg(e \notin {7, 9}, e = 8)]
    /\ states = [e \in Entities |->
                    CASE e \in {2, 5, 9} -> NoState
                      [] e \in {6, 7} -> St("kWh", "energy")
                      [] OTHER -> St("W", "power")]
    /\ exclude_entities = {}
    /\ yaml_configured = FALSE
    /\ entries = <<>>
    /\ InitRest

NextReset ==
    \/ Accumulate
    \/ ResetStart
    \/ \E outcome \in {"ok", "failed"} : ResetPurgeReturns(outcome)
    \/ \E outcome \in {"ok", "failed", "nothing"} :
           ResetStatisticsReturns(outcome)

SpecReset == InitReset /\ [][NextReset]_vars

-----------------------------------------------------------------------------
(* Properties.  They are stated over the record each pass leaves in         *)
(* passLog (the snapshot it read and what it computed) and over requests.   *)

InSeq(x, q) == \E i \in 1..Len(q) : q[i] = x

Passes == 1..Len(passLog)

\* The requests pass p made for device d.
DeviceRequests(p, d) ==
    SelectSeq(requests, LAMBDA r : r.pass = p /\ r.data.device_id = d)

\* Entity x is registered in the snapshot of pass P.
Registered(P, x) == P.registry[x].registered

\* x is an enabled sensor of the snapshot whose state carries an energy unit
\* and device_class "energy" or none.
EnabledEnergySensor(P, x) ==
    /\ Registered(P, x)
    /\ ~P.registry[x].disabled
    /\ Head(EntityId(x)) = "sensor"
    /\ P.states[x].present
    /\ P.states[x].unit \in {"kWh", "Wh"}
    /\ P.states[x].device_class \in {"energy", None}

\* Step 1 of the matcher, as the claims state it.
DeviceHasEnergy(P, d) ==
    \E x \in Entities : DeviceIdOf(x) = d /\ EnabledEnergySensor(P, x)

\* The six candidate names of the power sensors of the installation, written
\* out by hand from the six substitutions.
CandidateIds(e) ==
    CASE e = 1 -> { <<"sensor", ".", "plug", "_", "energy">>,
                    <<"sensor", ".", "plug", "_", "total", "_", "energy">>,
                    <<"sensor", ".", "plug", "_", "power", "_", "energy">>,
                    <<"sensor", ".", "plug", "_", "power", "_", "total", "_",
                      "energy">> }
      [] e = 3 -> { <<"sensor", ".", "strip", "_", "a", "_", "energy">>,
                    <<"sensor", ".", "strip", "_", "a", "_", "total", "_",
                      "energy">>,
                    <<"sensor", ".", "strip", "_", "a", "_", "power", "_",
                      "energy">>,
                    <<"sensor", ".", "strip", "_", "a", "_", "power", "_",
                      "total", "_", "energy">> }
      [] e = 4 -> { <<"sensor", ".", "strip", "_", "b", "_", "energy">>,
                    <<"sensor", ".", "strip", "_", "b", "_", "total", "_",
                      "energy">>,
                    <<"sensor", ".", "strip", "_", "b", "_", "power", "_",
                      "energy">>,
                    <<"sensor", ".", "strip", "_", "b", "_", "power", "_",
                      "total", "_", "energy">> }
      [] e = 8 -> { <<"sensor", ".", "power">>,
                    <<"sensor", ".", "energy">>,
                    <<"sensor", ".", "total", "_", "energy">>,
                    <<"sensor", ".", "power", "_", "energy">>,
                    <<"sensor", ".", "power", "_", "total", "_", "energy">> }
      [] OTHER -> {}

\* Some candidate name of e is registered and its state has an energy unit.
CandidateWithEnergyUnit(P, e) ==
    \E x \in Entities :
        /\ EntityId(x) \in CandidateIds(e)
        /\ Registered(P, x)
        /\ P.states[x].present
        /\ P.states[x].unit \in {"kWh", "Wh"}

\* Some candidate name of e is registered and classifies as Energy under the
\* full rule.
CandidateClassifiedEnergy(P, e) ==
    \E x \in Entities :
        /\ EntityId(x) \in CandidateIds(e)
        /\ Registered(P, x)
        /\ P.states[x].present
        /\ P.states[x].unit \in {"kWh", "Wh"}
        /\ P.states[x].device_class \in {"energy", None}

StripKey == <<"energycalc_device_", "dev1">>

\* C1 as claimed: for a group with a device id, when no enabled sensor of the
\* device classifies as Energy but a name-pattern candidate of one of the
\* group's power entities does, the group has a match and gets no plan.
C1_FallsThroughToNames ==
    \A p \in Passes :
        LET P == passLog[p]
        IN  \A e \in Entities :
                ( /\ InSeq(e, P.power_entities)
                  /\ DeviceIdOf(e) # None
                  /\ ~DeviceHasEnergy(P, DeviceIdOf(e))
                  /\ \E g \in Entities :
                        /\ InSeq(g, P.power_entities)
                        /\ DeviceIdOf(g) = DeviceIdOf(e)
                        /\ CandidateClassifiedEnergy(P, g) )
                => ( /\ ~InSeq(e, P.entities_needing_energy)
                     /\ ~InSeq(StripKey, P.emitted) )

\* C1 amended: for a group with a device id only device co-membership is
\* consulted; when no enabled sensor of the device classifies as Energy the
\* group has no match whatever name-pattern candidates exist, and it gets a
\* plan unless its dedup key is already provisioned.
C1_DeviceGroupIgnoresNames ==
    \A p \in Passes :
        LET P == passLog[p]
        IN  \A e \in Entities :
                ( /\ InSeq(e, P.power_entities)
                  /\ DeviceIdOf(e) # None
                  /\ ~DeviceHasEnergy(P, DeviceIdOf(e)) )
                => ( /\ InSeq(e, P.entities_needing_energy)
                     /\ P.complete =>
                            (StripKey \in P.entry_keys
                                 <=> ~InSeq(StripKey, P.emitted)) )

\* A pass found the strip without an energy co-member but with a registered
\* energy sensor under a candidate name, and requested a plan for the strip.
C1_Witness ==
    \E p \in Passes :
        LET P == passLog[p]
        IN  /\ InSeq(3, P.power_entities)
            /\ ~DeviceHasEnergy(P, "dev1")
            /\ CandidateClassifiedEnergy(P, 3)
            /\ InSeq(3, P.entities_needing_energy)
            /\ InSeq(StripKey, P.emitted)

\* C2: an enabled, non-excluded sensor with a state is taken as a power
\* entity by a pass if and only if its unit is "W" and its device_class is
\* "power" or absent; nothing else is ever taken as a power entity.
C2_PowerClassification ==
    \A p \in Passes :
        LET P == passLog[p]
        IN  \A e \in Entities :
                /\ ( /\ Registered(P, e)
                     /\ ~P.registry[e].disabled
                     /\ Head(EntityId(e)) = "sensor"
                     /\ e \notin P.exclude_entities
                     /\ P.states[e].present )
                   => ( InSeq(e, P.power_entities)
                          <=> /\ P.states[e].unit = "W"
                              /\ P.states[e].device_class \in {"power", None} )
                /\ InSeq(e, P.power_entities)
                   => /\ P.states[e].present
                      /\ P.states[e].unit = "W"
                      /\ P.states[e].device_class \in {"power", None}

\* A pass left out the plug, whose state is W with device_class humidity, and
\* took the strip's first outlet, whose state is W with no device_class.
C2_Witness ==
    \E p \in Passes :
        LET P == passLog[p]
        IN  /\ P.states[1] = St("W", "humidity")
            /\ ~P.registry[1].disabled
            /\ ~InSeq(1, P.power_entities)
            /\ P.states[3] = St("W", None)
            /\ InSeq(3, P.power_entities)

\* C3: a power entity with a device id is matched if and only if some entity
\* of the same device is enabled, a sensor, has a state, has an energy unit
\* and has device_class "energy" or none.
C3_DeviceCoMembership ==
    \A p \in Passes :
        LET P == passLog[p]
        IN  \A e \in Entities :
                (InSeq(e, P.power_entities) /\ DeviceIdOf(e) # None)
                => ( ~InSeq(e, P.entities_needing_energy)
                       <=> DeviceHasEnergy(P, DeviceIdOf(e)) )

\* A pass kept the strip's outlet as needing energy although the device has
\* a sensor in kWh tagged humidity and a number entity in kWh tagged energy.
C3_Witness ==
    \E p \in Passes :
        LET P == passLog[p]
        IN  /\ P.states[5] = St("kWh", "humidity")
            /\ ~P.registry[5].disabled
            /\ P.states[6] = St("kWh", "energy")
            /\ InSeq(3, P.power_entities)
            /\ InSeq(3, P.entities_needing_energy)

\* C4: a power entity without a device id is matched if and only if one of
\* its six candidate names is registered with a state in an energy unit; the
\* candidate lists are the six substitutions.
C4_NamePatternMatch ==
    \A p \in Passes :
        LET P == passLog[p]
        IN  /\ EnergyPatterns(<<"plug", "_", "power">>) =
                   << <<"plug", "_", "energy">>,
                      <<"plug", "_", "total", "_", "energy">>,
                      <<"plug", "_", "energy">>,
                      <<"plug", "_", "total", "_", "energy">>,
                      <<"plug", "_", "power", "_", "energy">>,
                      <<"plug", "_", "power", "_", "total", "_", "energy">> >>
            /\ \A e \in Entities :
                   (InSeq(e, P.power_entities) /\ DeviceIdOf(e) = None)
                   => ( ~InSeq(e, P.entities_needing_energy)
                          <=> CandidateWithEnergyUnit(P, e) )

\* A pass matched sensor.plug_power by the registered sensor.plug_energy in
\* kWh.
C4_Witness ==
    \E p \in Passes :
        LET P == passLog[p]
        IN  /\ InSeq(1, P.power_entities)
            /\ Registered(P, 2)
            /\ P.states[2] = St("kWh", None)
            /\ ~InSeq(1, P.entities_needing_energy)

\* C5 as claimed: a power entity without a device id is matched only if one
\* of its candidates classifies as Energy under the full rule (energy unit
\* and device_class "energy" or none).
C5_CandidateNeedsFullRule ==
    \A p \in Passes :
        LET P == passLog[p]
        IN  \A e \in Entities :
                ( /\ InSeq(e, P.power_entities)
                  /\ DeviceIdOf(e) = None
                  /\ ~InSeq(e, P.entities_needing_energy) )
                => CandidateClassifiedEnergy(P, e)

\* The power entities the claim speaks of: the enabled sensors of device d
\* whose state is W with device_class "power" or none, in registry order.
EnabledPowerOfDevice(P, d) ==
    SelectSeq(RegistryOrder,
              LAMBDA e : /\ DeviceIdOf(e) = d
                         /\ Registered(P, e)
                         /\ ~P.registry[e].disabled
                         /\ Head(EntityId(e)) = "sensor"
                         /\ P.states[e].present
                         /\ P.states[e].unit = "W"
                         /\ P.states[e].device_class \in {"power", None})

NotExcluded(P, q) == SelectSeq(q, LAMBDA e : e \notin P.exclude_entities)

\* How often x occurs in the units of a pass.
Occurrences(units, x) ==
    Cardinality({<<i, j>> \in (1..Len(units)) \X (1..8) :
                    j <= Len(units[i].entities) /\ units[i].entities[j] = x})

C10_OnePlanPerDevice ==
    \A p \in Passes :
        LET P == passLog[p]
            shared == EnabledPowerOfDevice(P, "dev1")
        IN  ( /\ P.complete
              /\ Len(shared) >= 2
              /\ ~DeviceHasEnergy(P, "dev1") )
            => /\ Len(DeviceRequests(p, "dev1")) = 1
               /\ DeviceRequests(p, "dev1")[1].data.power_entity_ids =
                      EntityIds(shared)

\* C10 amended: when several enabled power entities that are not excluded
\* share a device id and the device has no energy entity, the pass makes no
\* request for the device if its dedup key is already provisioned, and
\* otherwise exactly one, listing all of them in registry order.
C10_OnePlanPerUnprovisionedDevice ==
    \A p \in Passes :
        LET P == passLog[p]
            shared == NotExcluded(P, EnabledPowerOfDevice(P, "dev1"))
        IN  ( /\ P.complete
              /\ Len(shared) >= 2
              /\ ~DeviceHasEnergy(P, "dev1") )
            => IF StripKey \in P.entry_keys
               THEN DeviceRequests(p, "dev1") = <<>>
               ELSE /\ Len(DeviceRequests(p, "dev1")) = 1
                    /\ DeviceRequests(p, "dev1")[1].data.power_entity_ids =
                           EntityIds(shared)

\* A pass over both outlets of the unprovisioned strip made one request that
\* lists the two outlets.
C10_Witness ==
    \E p \in Passes :
        /\ passLog[p].complete
        /\ StripKey \notin passLog[p].entry_keys
        /\ Len(DeviceRequests(p, "dev1")) = 1
        /\ DeviceRequests(p, "dev1")[1].data.power_entity_ids =
               << EntityId(3), EntityId(4) >>

SameSnapshot(P, Q) ==
    /\ P.registry = Q.registry
    /\ P.states = Q.states
    /\ P.exclude_entities = Q.exclude_entities

\* C6: if every key a pass requested is provisioned when a later pass runs
\* over the same registry, states and exclusions, the later pass requests
\* nothing.
C6_Idempotence ==
    \A i, j \in Passes :
        ( /\ i < j
          /\ passLog[i].complete
          /\ passLog[j].complete
          /\ SameSnapshot(passLog[i], passLog[j])
          /\ SeqToSet(passLog[i].emitted) \subseteq passLog[j].entry_keys )
        => passLog[j].emitted = <<>>

\* A first pass requested two plans, both were confirmed, and a second pass
\* over the same snapshot requested nothing.
C6_Witness ==
    /\ Len(passLog) = 2
    /\ passLog[2].complete
    /\ SameSnapshot(passLog[1], passLog[2])
    /\ Len(passLog[1].emitted) = 2
    /\ SeqToSet(passLog[1].emitted) \subseteq passLog[2].entry_keys
    /\ passLog[2].emitted = <<>>

\* C7 as claimed: no request is made for a key while an earlier request for
\* the key is still awaiting confirmation and no config entry has the key.
C7_NoRequestWhileAwaiting ==
    \A i \in 1..Len(requests) : ~requests[i].awaiting

\* C7 amended: no request is made for a key that already has a config entry,
\* a pass requests a key at most once, and a key never gets two config
\* entries; a request for a key whose earlier request is still awaiting
\* confirmation is made again by a later pass.
C7_NoRequestOnceProvisioned ==
    /\ \A i \in 1..Len(requests) : ~requests[i].provisioned
    /\ \A i, j \in 1..Len(requests) :
           (requests[i].pass = requests[j].pass
                /\ requests[i].key = requests[j].key) => i = j
    /\ \A i, j \in 1..Len(entries) :
           entries[i].unique_id = entries[j].unique_id => i = j

\* A later pass requested the strip again while the first request was still
\* awaiting confirmation, and the strip ended with its one config entry.
C7_Witness ==
    /\ \E i, j \in 1..Len(requests) :
           /\ i < j
           /\ requests[i].key = StripKey
           /\ requests[j].key = StripKey
           /\ requests[j].awaiting
    /\ HasConfigEntry(entries, StripKey)

\* The tasks suspended inside a discovery pass.
InFlight == {t \in Tasks : pc[t] = "pass"}

\* C8: at most one discovery pass is in flight: no two tasks are inside a
\* pass, and at most one pass of the log has not run to completion.
C8_AtMostOnePassInFlight ==
    /\ Cardinality(InFlight) <= 1
    /\ Cardinality({p \in Passes : ~passLog[p].complete}) <= 1

\* Two passes started by different triggers have both run, while the handler
\* of a registry event is still waiting to start its own.
C8_Witness ==
    /\ Len(passLog) = 2
    /\ passLog[1].task # passLog[2].task
    /\ passLog[1].complete
    /\ passLog[2].complete
    /\ \E t \in Tasks : pc[t] = "sleep1"

\* The entity ids a request lists, in either shape of the discovery data.
RequestEntityIds(r) ==
    IF "power_entity_ids" \in DOMAIN r.data
    THEN r.data.power_entity_ids
    ELSE <<r.data.power_entity_id>>

Listed(r, e) == InSeq(EntityId(e), RequestEntityIds(r))

Requests == 1..Len(requests)

\* C11: no request of a pass lists a power entity that had an energy entity
\* in the snapshot the pass read: an enabled energy sensor on its device, or,
\* for an entity without a device, a registered name-pattern sibling with an
\* energy unit.
C11_PlanOnlyWithoutEnergy ==
    \A i \in Requests :
        LET P == passLog[requests[i].pass]
        IN  \A e \in Entities :
                Listed(requests[i], e)
                => /\ InSeq(e, P.entities_needing_energy)
                   /\ DeviceIdOf(e) # None => ~DeviceHasEnergy(P, DeviceIdOf(e))
                   /\ DeviceIdOf(e) = None => ~CandidateWithEnergyUnit(P, e)

\* A pass took the plug and the outlets as power entities; the plug had its
\* energy sibling and the strip had no energy sensor: the only request of
\* the pass is the strip's.
C11_Witness ==
    \E p \in Passes :
        LET P == passLog[p]
        IN  /\ InSeq(1, P.power_entities)
            /\ CandidateClassifiedEnergy(P, 1)
            /\ InSeq(3, P.power_entities)
            /\ ~DeviceHasEnergy(P, "dev1")
            /\ \E i \in Requests :
                   requests[i].pass = p /\ Listed(requests[i], 3)
            /\ \A i \in Requests :
                   requests[i].pass = p => ~Listed(requests[i], 1)

\* C12: an entity whose registry entry is disabled is no power entity of a
\* pass, is in no group and no dispatch unit, and is listed by no request,
\* whatever its state.
C12_DisabledExcluded ==
    \A p \in Passes :
        LET P == passLog[p]
        IN  \A e \in Entities :
                P.registry[e].disabled
                => /\ ~InSeq(e, P.power_entities)
                   /\ Occurrences(P.device_groups, e) = 0
                   /\ Occurrences(P.units, e) = 0
                   /\ \A i \in Requests :
                          requests[i].pass = p => ~Listed(requests[i], e)

\* A pass found the second outlet disabled while its state was in W with
\* device_class power, and requested a plan for the strip that lists the
\* first outlet only.
C12_Witness ==
    \E p \in Passes :
        LET P == passLog[p]
        IN  /\ P.registry[4].disabled
            /\ P.states[4] = St("W", "power")
            /\ \E i \in Requests :
                   /\ requests[i].pass = p
                   /\ requests[i].key = StripKey
                   /\ RequestEntityIds(requests[i]) = <<EntityId(3)>>

\* A key as the one string the code builds.
RECURSIVE Flat(_)
Flat(key) == IF key = <<>> THEN "" ELSE Head(key) \o Flat(Tail(key))

\* What a request's group is identified by: its device id, or the sole
\* entity id when there is no device id.
GroupIdentity(r) ==
    IF r.data.device_id # None THEN <<r.data.device_id>>
    ELSE RequestEntityIds(r)[1]

PlugKey == <<"energycalc_", "sensor", ".", "plug", "_", "power">>

\* C13: the dedup key is a function of the group and no two groups share a
\* key; the key discovery looked up before a request is the unique id the
\* config flow takes for the flow of that request, and the unique id of the
\* config entry created from it, in both shapes of the discovery data.
C13_DedupKeyAgreement ==
    /\ \A i, j \in Requests :
           GroupIdentity(requests[i]) = GroupIdentity(requests[j])
               <=> Flat(requests[i].key) = Flat(requests[j].key)
    /\ \A i \in Requests :
           Flat(requests[i].key) =
               IF requests[i].data.device_id # None
               THEN "energycalc_device_" \o requests[i].data.device_id
               ELSE "energycalc_" \o Flat(RequestEntityIds(requests[i])[1])
    /\ \A f \in flows :
           f.step = "confirm"
           => \A i \in Requests :
                  requests[i].data = f.info => f.unique_id = requests[i].key
    /\ \A k \in 1..Len(entries) :
           \E i \in Requests :
               /\ requests[i].key = entries[k].unique_id
               /\ FlowData(requests[i].data) = entries[k].data

\* Config entries exist for both sensors without a device and for the
\* strip (device group), each under the key discovery looks up.
C13_Witness ==
    /\ HasConfigEntry(entries, PlugKey)
    /\ HasConfigEntry(entries, <<"energycalc_", "sensor", ".", "power">>)
    /\ HasConfigEntry(entries, StripKey)
    /\ \E i, j \in Requests :
           /\ requests[i].key = PlugKey
           /\ "power_entity_id" \in DOMAIN requests[i].data
           /\ requests[j].key = StripKey
           /\ "power_entity_ids" \in DOMAIN requests[j].data

\* The units of pass p that were not skipped as already provisioned.
Unprovisioned(P) ==
    SelectSeq(P.units, LAMBDA u : UnitKey(u) \notin P.entry_keys)

\* C14: when async_create_flow fails for one group, the error is logged and
\* the pass goes on: every pass hands every one of its units on, in order,
\* makes a request for each unit that is not provisioned yet, and returns
\* normally.
C14_IsolateAndContinue ==
    /\ \A i \in Requests : ~requests[i].created => requests[i].error_logged
    /\ \A p \in Passes :
           LET P == passLog[p]
           IN  /\ ~P.aborted
               /\ P.complete => P.processed = P.units
               /\ P.complete =>
                      P.emitted =
                          [i \in 1..Len(Unprovisioned(P)) |->
                              UnitKey(Unprovisioned(P)[i])]

\* In one pass the flow of the plug could not be created, the error was
\* logged, and the flow of the strip, the next group, was created.
C14_Witness ==
    \E i, j \in Requests :
        /\ i < j
        /\ requests[i].pass = requests[j].pass
        /\ requests[i].key = PlugKey
        /\ ~requests[i].created
        /\ requests[i].error_logged
        /\ requests[j].key = StripKey
        /\ requests[j].created
        /\ passLog[requests[i].pass].complete

\* The discovery flows pass p actually created.
FlowsCreated(p) ==
    Cardinality({i \in Requests : requests[i].pass = p /\ requests[i].created})

\* C15 as claimed: the count a pass reports when it completes is the number
\* of discovery flows the pass created; groups skipped as already
\* provisioned and groups whose flow creation failed are not counted.
C15_CountIsFlowsCreated ==
    \A p \in Passes :
        passLog[p].complete => passLog[p].discovered_count = FlowsCreated(p)

\* The first non-empty name of a list of names, <<>> if there is none.
RECURSIVE FirstNonEmpty(_)
FirstNonEmpty(names) ==
    IF names = <<>> THEN <<>>
    ELSE IF Head(names) # <<>> THEN Head(names)
    ELSE FirstNonEmpty(Tail(names))

\* The name derived from the id of the primary entity of a request, written
\* out by hand.
HandDerivedName(r) ==
    LET id == RequestEntityIds(r)[1]
    IN  CASE id = EntityId(1) -> <<"Plug", " ", "Power">>
          [] id = EntityId(3) -> <<"Strip", " ", "A", " ", "Power">>
          [] id = EntityId(4) -> <<"Strip", " ", "B", " ", "Power">>
          [] OTHER -> <<"Power">>

\* C16: the display name of a request is the first non-empty of: the
\* device's user-assigned name, the device's registry name (both only when
\* the device has a registry entry), the primary entity's name, its original
\* name, and the name derived from its entity id; it is never empty.
C16_DisplayNamePrecedence ==
    \A i \in Requests :
        LET r == requests[i]
            of_device == IF r.data.device_id # None /\ naming.has_entry
                         THEN <<naming.name_by_user, naming.name>>
                         ELSE <<>>
        IN  /\ r.data.device_name =
                   FirstNonEmpty(of_device
                                 \o <<naming.entity_name, naming.original_name,
                                      HandDerivedName(r)>>)
            /\ r.data.device_name # <<>>

\* The strip was requested under its user-assigned name although the device
\* has a registry name and the outlet has a name of its own, and the plug,
\* which has no device, under its entity name.
C16_Witness ==
    /\ naming.has_entry
    /\ naming.name = <<"Strip">>
    /\ naming.entity_name = <<"Outlet">>
    /\ \E i, j \in Requests :
           /\ requests[i].key = StripKey
           /\ requests[i].data.device_name = <<"Desk", " ", "Strip">>
           /\ requests[j].key = PlugKey
           /\ requests[j].data.device_name = <<"Outlet">>

\* C17 as claimed: every request carries the power entity id list, a display
\* name, the device id, the area id and a uniqueness key equal to its dedup
\* key, and, whenever its device has a registry entry, the manufacturer and
\* model of the device.
C17_RequestCarriesAllFields ==
    \A i \in Requests :
        LET r == requests[i]
            fields == DOMAIN r.data
        IN  /\ fields \cap {"power_entity_ids", "power_entity_id"} # {}
            /\ {"device_name", "device_id", "area_id", "unique_id"}
                   \subseteq fields
            /\ r.data.unique_id = r.key
            /\ (r.data.device_id # None /\ naming.has_entry)
               => /\ {"manufacturer", "model"} \subseteq fields
                  /\ r.data.manufacturer = "Acme"
                  /\ r.data.model = "S2"

Calls == 1..Len(svc.calls)

\* The source of a create call is a power sensor without an energy sensor
\* of this integration yet, as the claim has it.
ValidCreate(c) ==
    /\ c.states[c.target].present
    /\ c.states[c.target].unit \in {"W", "watt", "watts"}
    /\ \A x \in Entities :
           EntityId(x) = EntityId(c.target) \o <<"_", "total", "_", "energy">>
           => ~c.registry_before[x].registered

\* C18 as claimed: a create_energy_sensor call whose source has a state and a
\* power unit and has no energy sensor yet creates a sensor and adds it; any
\* other call fails with a validation error and adds nothing.
C18_ValidCreateAddsSensor ==
    \A k \in Calls :
        LET c == svc.calls[k]
        IN  c.service = "create_energy_sensor"
            => IF ValidCreate(c)
               THEN c.result = "created" /\ c.added
               ELSE c.result = "ServiceValidationError" /\ ~c.added

\* The part of C18 the code meets: a call whose source has no state, has no
\* power unit or already has its energy sensor fails with a validation
\* error, and no call adds a sensor.
C18_InvalidCreateRejected ==
    \A k \in Calls :
        LET c == svc.calls[k]
        IN  c.service = "create_energy_sensor"
            => /\ ~ValidCreate(c) => c.result = "ServiceValidationError"
               /\ ~c.added
               /\ c.registry_after = c.registry_before

\* C20: a remove_energy_sensor call removes the entity from the registry if
\* and only if the entity is registered and its platform is this
\* integration; otherwise it fails with a validation error and the registry
\* is as it was.  A removal takes out that entity and no other.
C20_RemoveOnlyManaged ==
    \A k \in Calls :
        LET c == svc.calls[k]
            managed == /\ c.registry_before[c.target].registered
                       /\ c.target \in {2, 9}
        IN  c.service = "remove_energy_sensor"
            => IF managed
               THEN /\ c.result = "removed"
                    /\ ~c.registry_after[c.target].registered
                    /\ \A x \in Entities \ {c.target} :
                           c.registry_after[x] = c.registry_before[x]
               ELSE /\ c.result = "ServiceValidationError"
                    /\ c.registry_after = c.registry_before

\* One call removed the integration's sensor.plug_energy, one was refused
\* for sensor.strip_a_power of another platform, which stayed registered.
C20_Witness ==
    \E j, k \in Calls :
        /\ svc.calls[j].service = "remove_energy_sensor"
        /\ svc.calls[j].target = 2
        /\ svc.calls[j].result = "removed"
        /\ svc.calls[k].service = "remove_energy_sensor"
        /\ svc.calls[k].target = 3
        /\ svc.calls[k].result = "ServiceValidationError"
        /\ registry[3].registered
        /\ ~registry[2].registered

Resets == 1..Len(svc.resets)

\* C19: once a reset has been invoked and until the sensor integrates a new
\* source value, the state, the last valid state and the state written to
\* the host are zero, whatever the purge and the statistics clearing do; and
\* the statistics clearing is attempted in every reset, also when
\* purge_entities is not offered or has failed, and no reset raises.
C19_ResetZeroes ==
    /\ (svc.resets # <<>> /\ ~svc.since_reset)
       => /\ svc.state = 0
          /\ svc.last_valid_state = 0
          /\ svc.ha_state = 0
    /\ \A k \in Resets :
           LET r == svc.resets[k]
           IN  /\ ~r.raised
               /\ r.purge # "pending" => r.statistics_attempted
               /\ r.done => r.statistics_attempted /\ r.statistics # "pending"

\* A reset whose purge failed and whose statistics clearing failed has
\* returned; the accumulator is zero and zero is what the host was given.
C19_Witness ==
    /\ svc.state = 0
    /\ svc.last_valid_state = 0
    /\ svc.ha_state = 0
    /\ \E k \in Resets :
           /\ svc.resets[k].purge = "failed"
           /\ svc.resets[k].statistics = "failed"
           /\ svc.resets[k].done

-----------------------------------------------------------------------------
(* The triggers.                                                            *)

ListenerTasks == Tasks \ {InitialTask, PeriodicTask}

Failures == 1..Len(host.failures)

\* C21: whichever trigger started it, a discovery pass that raises has its
\* exception caught and logged by the trigger; no exception leaves a
\* trigger.
C21_NoFailureEscapesTrigger ==
    /\ \A i \in Failures : host.failures[i].caught /\ host.failures[i].logged
    /\ \A t \in Tasks : pc[t] # "raised"

\* C22 as claimed: the listener's power check and the power test of the pass
\* accept the same (unit, device_class) pairs, so the entity whose event
\* started a pass is a power entity of that pass whenever the pass found it
\* registered, enabled and not excluded.
C22_ListenerAgreesWithPass ==
    \A t \in ListenerTasks :
        locals[t].pass # 0
        => LET P == passLog[locals[t].pass]
               e == locals[t].entity
           IN  /\ ListenerIsPowerSensor(P.states[e].unit,
                                        P.states[e].device_class)
                  <=> IsPowerSensor(P.states[e].unit,
                                    P.states[e].device_class)
               /\ (/\ P.registry[e].registered
                   /\ ~P.registry[e].disabled
                   /\ e \notin P.exclude_entities)
                  => InSeq(e, P.power_entities)

\* C24: without the domain in the YAML configuration async_setup registers
\* the two services and returns True, and nothing else ever happens: no
\* task is scheduled, no listener is registered, no pass runs or fails, and
\* no flow is requested.
C24_NoDiscoveryWithoutYaml ==
    ~yaml_configured
    => /\ \A t \in Tasks : pc[t] \in {"unscheduled", "idle"}
       /\ ~host.listener
       /\ passLog = <<>>
       /\ host.failures = <<>>
       /\ requests = <<>>
       /\ flows = {}
       /\ setup_done
          => /\ host.services = {SERVICE_CREATE_ENERGY_SENSOR,
                                 SERVICE_REMOVE_ENERGY_SENSOR}
             /\ host.setup_returned = "True"

\* Without the domain in the configuration async_setup has returned, and the
\* registry has since enabled a sensor that reports power in W.
C24_Witness ==
    /\ ~yaml_configured
    /\ setup_done
    /\ host.setup_returned = "True"
    /\ events = 1
    /\ ~registry[8].disabled
    /\ states[8] = St("W", "power")

\* C25: no request of any pass lists an entity of exclude_entities, and a
\* pass still requests the other power entities of an excluded entity's
\* device that need an energy sensor, in one request without the excluded
\* entity.
C25_ExcludedNeverRequested ==
    /\ \A i \in Requests :
           \A e \in exclude_entities : ~Listed(requests[i], e)
    /\ \A p \in Passes :
           LET P == passLog[p]
           IN  \A e \in P.exclude_entities, o \in Entities :
                   (/\ P.complete
                    /\ P.entry_keys = {}
                    /\ o \notin P.exclude_entities
                    /\ DeviceIdOf(e) # None
                    /\ DeviceIdOf(o) = DeviceIdOf(e)
                    /\ InSeq(o, P.entities_needing_energy))
                   => \E i \in Requests :
                          /\ requests[i].pass = p
                          /\ Listed(requests[i], o)
                          /\ ~Listed(requests[i], e)

\* With the second outlet excluded while it reports power, a pass started
\* by a registry event requested the strip with the first outlet alone, and
\* so did the initial pass.
C25_Witness ==
    /\ exclude_entities = {4}
    /\ states[4] = St("W", "power")
    /\ ~registry[4].disabled
    /\ \E t \in ListenerTasks \cup {InitialTask} :
           /\ locals[t].pass # 0
           /\ \E i \in Requests :
                  /\ requests[i].pass = locals[t].pass
                  /\ requests[i].key = StripKey
                  /\ RequestEntityIds(requests[i]) = <<EntityId(3)>>
    /\ \E t \in ListenerTasks :
           /\ locals[t].pass # 0
           /\ \E i \in Requests :
                  /\ requests[i].pass = locals[t].pass
                  /\ RequestEntityIds(requests[i]) = <<EntityId(3)>>

-----------------------------------------------------------------------------
(* The config flow as a state machine.                                      *)

\* C23: a step that adds a config entry is the confirm step of a flow at
\* its confirm form, and adds one entry with that flow's unique id; a flow
\* comes to its confirm form only from its start, through
\* integration_discovery, under the unique id derived from its discovery
\* info and only if no entry has that id; a user-initiated flow aborts with
\* not_supported and changes neither the entries nor the flows.
C23_FlowStateMachine ==
    [][ /\ entries' # entries
           => \E f \in flows :
                  /\ f.step = "confirm"
                  /\ Len(entries') = Len(entries) + 1
                  /\ SubSeq(entries', 1, Len(entries)) = entries
                  /\ entries'[Len(entries')].unique_id = f.unique_id
                  /\ entries'[Len(entries')].data = f.data
        /\ \A g \in flows' \ flows :
               g.step = "confirm"
               => \E f \in flows :
                      /\ f.step = "init"
                      /\ g.info = f.info
                      /\ g.unique_id = FlowUniqueId(f.info)
                      /\ ~HasConfigEntry(entries, g.unique_id)
                      /\ ~HasConfigEntry(entries', g.unique_id)
        /\ host'.user_flows # host.user_flows
           => /\ entries' = entries
              /\ flows' = flows
              /\ host'.user_flows[Len(host'.user_flows)] =
                     [type |-> "abort", reason |-> "not_supported"]
      ]_vars

\* The strip's entry was created by a confirmed flow, a second discovery
\* flow for the strip is at its start and can only abort, and a user has
\* started a flow.
C23_Witness ==
    /\ HasConfigEntry(entries, StripKey)
    /\ \E f \in flows : f.step = "init" /\ FlowUniqueId(f.info) = StripKey
    /\ \E f \in flows : f.step = "confirm" /\ f.unique_id # StripKey
    /\ host.user_flows # <<>>

-----------------------------------------------------------------------------
(* Config entries and the platforms.                                        *)

PlatformSensors(k) ==
    {x \in host.platform : x.entry = k /\ x.domain = "sensor"}

\* The power entity ids an entry lists: its power_entity_ids, or the one
\* power_entity_id of the single-entity format.
ListedIds(data) ==
    IF "power_entity_ids" \in DOMAIN data /\ Len(data.power_entity_ids) > 0
    THEN data.power_entity_ids
    ELSE IF "power_entity_id" \in DOMAIN data
    THEN <<data.power_entity_id>>
    ELSE <<>>

\* C27: a loaded entry has exactly one sensor per listed power entity id
\* (one for an entry in the single-entity format, none for an entry that
\* lists nothing), the sensor at index i has the i-th id as its source and
\* the unique id "<entry_id>_energy_<i>", and no two sensors of the
\* platform, of one entry or of two, have the same unique id.
C27_OneSensorPerPowerEntity ==
    /\ \A k \in host.loaded :
           LET ids == ListedIds(entries[k].data)
           IN  /\ Cardinality(PlatformSensors(k)) = Len(ids)
               /\ \A i \in 1..Len(ids) :
                      \E x \in PlatformSensors(k) :
                          /\ x.index = i - 1
                          /\ x.source = ids[i]
                          /\ Flat(x.unique_id) =
                                 ToString(k) \o "_energy_" \o ToString(i - 1)
    /\ \A x, y \in {z \in host.platform : z.domain = "sensor"} :
           x # y => Flat(x.unique_id) # Flat(y.unique_id)

\* Loaded at once: the strip's entry with its two sensors, a stored entry
\* in the single-entity format with one, and the stored entry with an
\* empty list with none.
C27_Witness ==
    /\ {1, 2} \subseteq host.loaded
    /\ Cardinality(PlatformSensors(1)) = 1
    /\ PlatformSensors(2) = {}
    /\ \E k \in host.loaded :
           /\ entries[k].unique_id = StripKey
           /\ Cardinality(PlatformSensors(k)) = 2

\* C29 as claimed: hass.data[DOMAIN] holds an entry's record, and the
\* energy_sensors map a reference to a sensor, only while the entry is
\* loaded; a failed unload leaves the record in place.
C29_SharedDataOnlyForLoaded ==
    /\ host.data \subseteq host.loaded
    /\ \A r \in host.energy_sensors : r.entry \in host.loaded
    /\ (host.last.op = "unload" /\ ~host.last.result)
       => host.last.entry \in host.data

\* C30: async_setup_entry returns True and forwards the sensor and the
\* button platform exactly when the entry's data has the key
\* power_entity_id or power_entity_ids, and otherwise returns False and
\* forwards nothing; an entry the config flow creates has a non-empty
\* power_entity_ids, so its set-up returns True.
C30_SetupAcceptsPowerEntries ==
    [][ /\ host'.last.op = "setup"
           => LET data == entries'[host'.last.entry].data
                  names == \/ "power_entity_id" \in DOMAIN data
                           \/ "power_entity_ids" \in DOMAIN data
              IN  /\ host'.last.result = names
                  /\ host'.last.forwarded =
                         IF names THEN {"sensor", "button"} ELSE {}
                  /\ host'.last.result
                     <=> host'.last.entry \in host'.loaded
        /\ entries' # entries
           => LET created == entries'[Len(entries')]
              IN  /\ "power_entity_ids" \in DOMAIN created.data
                  /\ Len(created.data.power_entity_ids) > 0
      ]_vars

\* The entry created from discovery info in the single-entity format has
\* been set up and accepted, and the stored entry without a power source
\* has been set up and rejected.
C30_Witness ==
    /\ host.last.op = "setup"
    /\ host.last.result
    /\ entries[host.last.entry].unique_id = <<"energycalc_">> \o EntityId(8)
    /\ entries[host.last.entry].data.power_entity_ids = <<EntityId(8)>>
    /\ 3 \in host.data \ host.loaded

-----------------------------------------------------------------------------
(* The reset button.                                                        *)

Presses == 1..Len(host.presses)

\* C26: at every press each sensor of the button's entry whose state has a
\* source_entity attribute is either reset or recorded as failed, never
\* both; it is recorded as failed exactly if its reset raised, so a failure
\* keeps no later sensor from being reset; the other sensors are in neither
\* list; and the notification states the outcome: the number reset and, if
\* any, the number failed, or that all failed, or that there was nothing to
\* reset.
C26_PressResetsOrRecordsEach ==
    \A i \in Presses :
        LET p == host.presses[i]
            eligible == {x \in p.sensors : x.index \in p.with_state}
            failed == {x \in eligible : x.index \in p.raising}
            n == Cardinality(eligible \ failed)
            m == Cardinality(failed)
            message == Flat(p.notification.message)
        IN  /\ \A x \in p.sensors :
                   /\ InSeq(x.entity_id, p.reset) <=> x \in eligible \ failed
                   /\ InSeq(x.entity_id, p.failed_resets) <=> x \in failed
            /\ p.reset_count = n
            /\ Len(p.reset) = n
            /\ Len(p.failed_resets) = m
            /\ n = 1 /\ m = 0
               => message = "Successfully reset 1 energy sensor"
            /\ n > 1 /\ m = 0
               => message = "Successfully reset " \o ToString(n)
                            \o " energy sensors"
            /\ n > 0 /\ m = 1
               => message = "Successfully reset " \o ToString(n)
                            \o " energy sensor" \o (IF n = 1 THEN "" ELSE "s")
                            \o ". Failed to reset 1 sensor"
            /\ n > 0 /\ m > 1
               => message = "Successfully reset " \o ToString(n)
                            \o " energy sensor" \o (IF n = 1 THEN "" ELSE "s")
                            \o ". Failed to reset " \o ToString(m)
                            \o " sensors"
            /\ n = 0 /\ m > 0
               => message = "Failed to reset all " \o ToString(m)
                            \o " energy sensors"
            /\ n = 0 /\ m = 0
               => message = "No energy sensors found to reset"

\* A press on the entry with three sensors, all with a state: the reset of
\* the second raised, the first and the third were reset, and the
\* notification says so.
C26_Witness ==
    \E i \in Presses :
        LET p == host.presses[i]
        IN  /\ Cardinality(p.sensors) = 3
            /\ p.with_state = {0, 1, 2}
            /\ p.raising = {1}
            /\ p.reset = <<SensorEntityId(EntityId(1)),
                           SensorEntityId(EntityId(8))>>
            /\ p.failed_resets = <<SensorEntityId(EntityId(3))>>
            /\ Flat(p.notification.message) =
                   "Successfully reset 2 energy sensors. Failed to reset 1 sensor"

-----------------------------------------------------------------------------
(* Filtering before grouping against grouping before filtering.             *)

\* Whether the pass finds an energy entity for power entity e: on its
\* device, or by name for an entity without a device.
Verdict(P, e) ==
    IF DeviceIdOf(e) # None THEN DeviceHasEnergy(P, DeviceIdOf(e))
    ELSE CandidateWithEnergyUnit(P, e)

\* The units of a pass that groups all its power entities first and then
\* drops every unit with a member that has an energy entity.
GroupFirstUnits(P) ==
    {u \in SeqToSet(DispatchUnits(GroupEntitiesByDevice(P.power_entities))) :
        \A i \in 1..Len(u.entities) : ~Verdict(P, u.entities[i])}

\* C28: in a pass the power entities of one device all need an energy
\* sensor or none does, the group of a device is all the power entities of
\* the device or is absent, and the units the pass dispatches are, as a
\* set, the units of grouping all power entities first and dropping the
\* groups with an energy entity.
C28_FilterThenGroupIsGroupThenFilter ==
    \A p \in Passes :
        LET P == passLog[p]
        IN  /\ \A e \in Entities, o \in Entities :
                   (/\ InSeq(e, P.power_entities)
                    /\ InSeq(o, P.power_entities)
                    /\ DeviceIdOf(e) # None
                    /\ DeviceIdOf(e) = DeviceIdOf(o))
                   => (InSeq(e, P.entities_needing_energy)
                       <=> InSeq(o, P.entities_needing_energy))
            /\ \A g \in 1..Len(P.device_groups) :
                   P.device_groups[g].device_id # None
                   => P.device_groups[g].entities =
                          SelectSeq(P.power_entities,
                                    LAMBDA e : DeviceIdOf(e) =
                                               P.device_groups[g].device_id)
            /\ SeqToSet(P.units) = GroupFirstUnits(P)

\* A pass with both outlets of the strip as power entities, where the first
\* outlet has a registered name sibling with an energy unit that is not on
\* the device: the strip's group is kept whole, while the plug, which has
\* no device and has its sibling, is filtered out on its own.
C28_Witness ==
    \E p \in Passes :
        LET P == passLog[p]
        IN  /\ InSeq(3, P.power_entities)
            /\ InSeq(4, P.power_entities)
            /\ CandidateWithEnergyUnit(P, 3)
            /\ ~DeviceHasEnergy(P, "dev1")
            /\ [kind |-> "device", device_id |-> "dev1",
                 entities |-> <<3, 4>>] \in SeqToSet(P.units)
            /\ InSeq(1, P.power_entities)
            /\ ~InSeq(1, P.entities_needing_energy)
            /\ InSeq(8, P.entities_needing_energy)

====
